---- MODULE Spec2Model ----
(***************************************************************************)
(* Verification model of the Inspector Gadget OS security kernel:          *)
(*   - the Casbin policy store (rbac.CasbinManager),                       *)
(*   - the JWT / RBAC HTTP middleware chain of the integrated server,      *)
(*   - the MCP peer client (mcp.MCPClient) and its transports,             *)
(*   - the MCP peer manager (mcp.MCPManager).                              *)
(* Strings are Go strings; "role:" \o r is fmt.Sprintf("role:%s", r).       *)
(***************************************************************************)
EXTENDS Integers, Sequences, FiniteSets, TLC

VARIABLES
  policy,        \* enforcer p-rules: set of <<subject, object, action>>
  grouping,      \* enforcer g-rules: set of <<user, roleKey>>
  now,           \* wall clock (time.Now), in token-lifetime ticks
  resp,          \* the HTTP exchange just completed, or Idle
  tkind,         \* MCP client: which Transport implementation it was given
  tconnected,    \* transport.connected
  peerGone,      \* the peer process has exited (stdio child)
  outgoing,      \* ids of the request frames sent and not yet answered
  incoming,      \* frames from the peer not yet returned by Receive
  idGen,         \* MessageIDGenerator.counter
  pendingRequests, \* set of <<key, caller>>: key -> that caller's respChan
  respChan,      \* per caller: its response channel [buf, closed]
  requestMutex,  \* "free", or "stuck" once a holder panicked
  cmutex,        \* MCPClient.mutex: "free" or the goroutine that holds it
  connected,     \* MCPClient.connected
  initialized,   \* MCPClient.initialized
  ctxDone,       \* MCPClient.ctx has been cancelled
  call,          \* per caller: position in its API call / sendRequest
  loop,          \* position of the handleMessages goroutine
  closer,        \* position of the goroutine running Close
  notifs,        \* list_changed notifications the peer has sent
  clients,       \* MCPManager.clients: server name -> session (0: no entry)
  objs,          \* the transports and clients ConnectServer has created
  hc,            \* position of performHealthCheck and its snapshot
  last,          \* the manager operation that ran last, and its result
  fscfg,         \* SafeFS: the fields NewSafeFS set from its Config
  fscall,        \* SafeFS: the call in progress, with what it returned
  audit,         \* SafeFS: records handed to the audit sink by that call
  db,            \* the casbin_rule table of the store's database: the
                 \* rows [p, g], and fresh: untouched since first start
  jcall,         \* JWTManager used as a library: the call just made
  tr,            \* a Transport used directly: its fields, its child and
                 \* the goroutines in its methods
  gen,           \* a MessageIDGenerator used directly, and its callers
  frame,         \* a Message handed to ValidateMessage, and the answer
  mstop          \* MCPManager.Stop: the position of its goroutine, the
                 \* sessions its range has yet to visit, healthStop

rbacVars == <<policy, grouping>>
httpVars == <<now, resp>>
transportVars == <<tkind, tconnected, peerGone, outgoing, incoming, notifs>>
clientVars ==
  <<idGen, pendingRequests, respChan, requestMutex, cmutex, connected,
    initialized, ctxDone, call, loop, closer>>
mgrVars == <<clients, objs, hc, last, mstop>>
fsVars == <<fscfg, fscall, audit>>
mcpVars == <<transportVars, clientVars, mgrVars>>
serverVars == <<policy, grouping, db, now, resp, mgrVars, fsVars, jcall, tr, gen, frame>>
vars == <<policy, grouping, db, now, resp, transportVars, clientVars, mgrVars, fsVars, jcall, tr, gen, frame>>

\* No JWTManager call has been made.
NoJwtCall == [op |-> "idle"]
\* No transport and no id generator is in direct use.
NoTransport == [kind |-> "none"]
NoGenerator == [counter |-> 0]
\* No frame has been handed to ValidateMessage.
NoFrame == [op |-> "idle"]

(***************************************************************************)
(* MCP client: the objects NewMCPClient builds                              *)
(***************************************************************************)

\* The goroutines that call sendRequest: Connect's initialize ("conn"), two
\* API callers, and the receive loop itself when a list_changed notification
\* makes it re-fetch ("loop").
ApiCallers == { "c1", "c2" }
Callers == { "conn", "loop" } \cup ApiCallers
\* The callers whose context can be cancelled while they wait: one API
\* caller passes a cancellable context, the loop passes c.ctx.
CancellableCallers == { "c2", "loop" }

NoId == <<"nil", 0>>
NoCall == [pc |-> "idle", id |-> NoId, res |-> [kind |-> "none", id |-> NoId]]
NewChan == [buf |-> <<>>, closed |-> FALSE]

\* NewMCPClient over a transport of the given kind that its owner has
\* already connected (transport.Connect precedes client.Connect).
NewMCPClient(kind) ==
  /\ tkind = kind
  /\ tconnected = TRUE
  /\ peerGone = FALSE
  /\ outgoing = {}
  /\ incoming = <<>>
  /\ notifs = 0
  /\ idGen = 0
  /\ pendingRequests = {}
  /\ respChan = [x \in Callers |-> NewChan]
  /\ requestMutex = "free"
  /\ cmutex = "free"
  /\ connected = FALSE
  /\ initialized = FALSE
  /\ ctxDone = FALSE
  /\ call = [x \in Callers |-> NoCall]
  /\ loop = [pc |-> "off", msg |-> [type |-> "none", id |-> NoId], target |-> "none"]
  /\ closer = "idle"

\* The server has no MCP session of its own in the other specifications.
NoSession == NewMCPClient("memory")

(***************************************************************************)
(* MCP manager: the objects NewMCPManager builds                            *)
(***************************************************************************)

\* The configured servers (MCPManagerConfig.Servers) and one name that is
\* not configured.
ConfiguredServers == { "auto", "manual", "off", "bad" }
ServerNames == ConfiguredServers \cup { "ghost" }
ServerConfigs ==
  [ n \in ConfiguredServers |->
      [ Enabled |-> n # "off",
        AutoStart |-> n \in { "auto", "off", "bad" },
        Transport |-> IF n = "bad" THEN "carrier" ELSE "stdio" ] ]
\* The transport types TransportFactory.CreateTransport knows.
TransportTypes == { "stdio", "unix", "tcp", "memory" }

NoClient == 0
NoOp == [op |-> "none", by |-> "none", name |-> "", err |-> "nil"]

NewMCPManager ==
  /\ clients = [n \in ServerNames |-> NoClient]
  /\ objs = <<>>
  /\ hc = [pc |-> "idle", snap |-> [n \in ServerNames |-> NoClient], todo |-> {}]
  /\ last = NoOp
  /\ mstop = [pc |-> "idle", todo |-> {}, healthStop |-> "open"]

(***************************************************************************)
(* Sandboxed file system: the objects NewSafeFS builds                      *)
(***************************************************************************)

\* The size cap of the configurations that have one.
SizeCap == 1

\* The safefs.Config the server's main builds: no denied paths, no sink.
ServerFsConfig ==
  [basePaths |-> << [abs |-> TRUE, segs |-> <<"base">>] >>, maxFileSize |-> SizeCap,
   allowedExts |-> {".txt", ".md", ".json", ".yaml", ".yml", ".log"},
   deniedPaths |-> <<>>, auditLogger |-> FALSE]

\* safefs.Config values NewSafeFS is called with.
FsConfigs ==
  LET Dir(segs) == [abs |-> TRUE, segs |-> segs]
  IN  { [basePaths |-> <<Dir(<<"base">>)>>, maxFileSize |-> SizeCap,
         allowedExts |-> {}, deniedPaths |-> <<Dir(<<"base", "secret">>)>>,
         auditLogger |-> TRUE],
        [basePaths |-> <<Dir(<<"base", "secret">>)>>, maxFileSize |-> 0,
         allowedExts |-> {".txt"}, deniedPaths |-> <<>>,
         auditLogger |-> TRUE],
        [basePaths |-> <<Dir(<<"etc">>), Dir(<<"base">>)>>, maxFileSize |-> SizeCap,
         allowedExts |-> {}, deniedPaths |-> <<Dir(<<"base", "secret">>)>>,
         auditLogger |-> FALSE],
        [basePaths |-> <<Dir(<<>>)>>, maxFileSize |-> SizeCap,
         allowedExts |-> {".txt"}, deniedPaths |-> <<Dir(<<"etc">>)>>,
         auditLogger |-> TRUE],
        ServerFsConfig }

NoFsCall == [op |-> "idle", path |-> [abs |-> FALSE, segs |-> <<>>], n |-> 0,
             err |-> "nil", os |-> <<>>]

\* NewSafeFS (the extensions of these configurations are lower-case already).
NewSafeFS(config) ==
  /\ fscfg = config
  /\ fscall = NoFsCall
  /\ audit = <<>>

(***************************************************************************)
(* Policy store (o-llama/internal/rbac)                                     *)
(***************************************************************************)

\* "role:" + role, as AssignRole / RemoveRole / RequirePermission build it.
RoleKey(role) == "role:" \o role

\* DefaultPermissions: the rules seeded into an empty store.
DefaultPermissions ==
  { <<"role:admin", "filesystem", "read">>,
    <<"role:admin", "filesystem", "write">>,
    <<"role:admin", "filesystem", "execute">>,
    <<"role:admin", "system", "config">>,
    <<"role:admin", "system", "manage">>,
    <<"role:admin", "ai", "access">>,
    <<"role:admin", "ai", "models">>,
    <<"role:admin", "users", "manage">>,
    <<"role:admin", "roles", "manage">>,
    <<"role:admin", "gadgets", "execute">>,
    <<"role:admin", "gadgets", "manage">>,
    <<"role:user", "filesystem", "read">>,
    <<"role:user", "ai", "access">>,
    <<"role:user", "gadgets", "execute">>,
    <<"role:readonly", "filesystem", "read">>,
    <<"role:ai_user", "filesystem", "read">>,
    <<"role:ai_user", "filesystem", "write">>,
    <<"role:ai_user", "ai", "access">>,
    <<"role:ai_user", "gadgets", "execute">> }

\* One step of the role manager's link relation: the role keys a name is
\* directly grouped under.
DirectRoles(g, name) == { e[2] : e \in { x \in g : x[1] = name } }

\* Everything reachable from the names in `frontier` through g-rules
\* (casbin's default role manager follows links transitively; the chains of
\* this model stay far below its hierarchy limit).
RECURSIVE LinkClosure(_, _)
LinkClosure(g, seen) ==
  LET next == seen \cup UNION { DirectRoles(g, n) : n \in seen }
  IN  IF next = seen THEN seen ELSE LinkClosure(g, next)

\* g(r.sub, p.sub) of the matcher: equal names, or a chain of g-rules.
HasLink(g, sub, psub) == psub \in LinkClosure(g, {sub})

\* The matcher of DefaultModelConfig:
\*   m = g(r.sub, p.sub) && r.obj == p.obj && r.act == p.act
\* with effect some(where (p.eft == allow)).
EnforceIn(p, g, sub, obj, act) ==
  \E rule \in p : HasLink(g, sub, rule[1]) /\ rule[2] = obj /\ rule[3] = act

\* CasbinManager.Enforce on the current store.
Enforce(sub, obj, act) == EnforceIn(policy, grouping, sub, obj, act)

\* CasbinManager.CheckUserPermission delegates to Enforce.
CheckUserPermission(user, obj, act) == Enforce(user, obj, act)

\* The prefix strip of GetUserRoles: role[5:] when len(role) > 5 and
\* role[:5] == "role:", the name unchanged otherwise.
StripRolePrefix(role) ==
  IF Len(role) > 5 /\ SubSeq(role, 1, 5) = "role:"
  THEN SubSeq(role, 6, Len(role))
  ELSE role

\* CasbinManager.GetUserRoles: the direct roles of the user, prefix removed.
GetUserRoles(user) == { StripRolePrefix(r) : r \in DirectRoles(grouping, user) }

\* CasbinManager.CheckUserRole.
CheckUserRole(user, role) == role \in GetUserRoles(user)

\* Inputs of the store operations.
UserInputs == { "alice", "bob", "role:user" }
RoleInputs == { "user", "admin" }
RuleInputs ==
  { <<"alice", "filesystem", "write">>,
    <<"role:user", "system", "manage">>,
    <<"role:user", "filesystem", "read">>,
    <<"role:admin", "system", "manage">> }

\* CasbinManager.AddPermission: AddPolicy reports false for a rule that is
\* already there, which AddPermission turns into an error (no change).
AddPermissionOk(rule) == rule \notin policy
AddPermission(rule) ==
  /\ AddPermissionOk(rule)
  /\ policy' = policy \cup {rule}
  /\ db' = [p |-> policy', g |-> grouping, fresh |-> FALSE]
  /\ UNCHANGED <<grouping, httpVars, mcpVars, fsVars, jcall, tr, gen, frame>>

\* CasbinManager.RemovePermission.
RemovePermissionOk(rule) == rule \in policy
RemovePermission(rule) ==
  /\ RemovePermissionOk(rule)
  /\ policy' = policy \ {rule}
  /\ db' = [p |-> policy', g |-> grouping, fresh |-> FALSE]
  /\ UNCHANGED <<grouping, httpVars, mcpVars, fsVars, jcall, tr, gen, frame>>

\* CasbinManager.AssignRole: AddRoleForUser(user, "role:"+role); the only
\* refusal is a grant that already exists.
AssignRoleOk(user, role) == <<user, RoleKey(role)>> \notin grouping
AssignRole(user, role) ==
  /\ AssignRoleOk(user, role)
  /\ grouping' = grouping \cup { <<user, RoleKey(role)>> }
  /\ db' = [p |-> policy, g |-> grouping', fresh |-> FALSE]
  /\ UNCHANGED <<policy, httpVars, mcpVars, fsVars, jcall, tr, gen, frame>>

\* CasbinManager.RemoveRole.
RemoveRoleOk(user, role) == <<user, RoleKey(role)>> \in grouping
RemoveRole(user, role) ==
  /\ RemoveRoleOk(user, role)
  /\ grouping' = grouping \ { <<user, RoleKey(role)>> }
  /\ db' = [p |-> policy, g |-> grouping', fresh |-> FALSE]
  /\ UNCHANGED <<policy, httpVars, mcpVars, fsVars, jcall, tr, gen, frame>>

\* NewCasbinManager on an empty database: initializeDefaults seeds the rules.
RbacInit ==
  /\ policy = DefaultPermissions
  /\ grouping = {}
  /\ db = [p |-> policy, g |-> grouping, fresh |-> TRUE]
  /\ jcall = NoJwtCall
  /\ frame = NoFrame
  /\ tr = NoTransport
  /\ gen = NoGenerator
  /\ now = 0
  /\ resp = [route |-> "idle"]
  /\ NoSession
  /\ NewMCPManager
  /\ NewSafeFS(ServerFsConfig)

RbacNext ==
  \/ \E rule \in RuleInputs : AddPermission(rule)
  \/ \E rule \in RuleInputs : RemovePermission(rule)
  \/ \E u \in UserInputs, r \in RoleInputs : AssignRole(u, r)
  \/ \E u \in UserInputs, r \in RoleInputs : RemoveRole(u, r)

SpecRbac == RbacInit /\ [][RbacNext]_vars

(***************************************************************************)
(* Life cycle of the store: NewCasbinManager, Close, seeding                *)
(***************************************************************************)

\* As initializeDefaults, but seeding the rules of role:admin only.
initializeDefaults_AdminOnly(rules) ==
  IF Cardinality(rules) > 0 THEN rules
  ELSE rules \cup { r \in DefaultPermissions : r[1] = "role:admin" }

\* CasbinManager.initializeDefaults on the p-rules LoadPolicy read: nothing
\* if there is any rule, otherwise every default rule is added and saved.
initializeDefaults(rules) ==
  IF Cardinality(rules) > 0 THEN rules ELSE rules \cup DefaultPermissions

\* NewCasbinManager on a database holding `rows`: LoadPolicy, then
\* initializeDefaults, whose SavePolicy rewrites the table.
NewCasbinManager(rows, fresh) ==
  /\ policy = initializeDefaults(rows.p)
  /\ grouping = rows.g
  /\ db = [p |-> initializeDefaults(rows.p), g |-> rows.g, fresh |-> fresh]

\* The process restarts: Close, then NewCasbinManager on the same database.
Restart ==
  /\ policy' = initializeDefaults(db.p)
  /\ grouping' = db.g
  /\ db' = [p |-> initializeDefaults(db.p), g |-> db.g, fresh |-> FALSE]
  /\ UNCHANGED <<httpVars, mcpVars, fsVars, jcall, tr, gen, frame>>

\* As GrantRevoke, but the revocation deletes every role of the user.
GrantRevoke_DeletesAllRoles(user, role) ==
  LET granted == grouping \cup { <<user, RoleKey(role)>> }
      revoked == { e \in granted : e[1] # user }
  IN  /\ grouping' = revoked
      /\ db' = [p |-> policy, g |-> revoked, fresh |-> FALSE]
      /\ UNCHANGED <<policy, httpVars, mcpVars, fsVars, jcall, tr, gen, frame>>

\* AssignRole(user, role) followed by RemoveRole(user, role) by one caller:
\* the grant is added unless it is there (then AssignRole returns its
\* error), and RemoveRole deletes it.
GrantRevoke(user, role) ==
  LET granted == grouping \cup { <<user, RoleKey(role)>> }
      revoked == granted \ { <<user, RoleKey(role)>> }
  IN  /\ grouping' = revoked
      /\ db' = [p |-> policy, g |-> revoked, fresh |-> FALSE]
      /\ UNCHANGED <<policy, httpVars, mcpVars, fsVars, jcall, tr, gen, frame>>

\* The rules an administrator removes: those of RuleInputs, and the default
\* rules one after the other.
RemovalInputs ==
  RuleInputs \cup
    (IF policy \cap DefaultPermissions = {} THEN {}
     ELSE { CHOOSE rule \in policy \cap DefaultPermissions : TRUE })

\* First start: NewCasbinManager on an empty database.
StoreInit ==
  /\ NewCasbinManager([p |-> {}, g |-> {}], TRUE)
  /\ jcall = NoJwtCall
  /\ frame = NoFrame
  /\ tr = NoTransport
  /\ gen = NoGenerator
  /\ now = 0
  /\ resp = [route |-> "idle"]
  /\ NoSession
  /\ NewMCPManager
  /\ NewSafeFS(ServerFsConfig)

StoreNext ==
  \/ \E rule \in RuleInputs : AddPermission(rule)
  \/ \E rule \in RemovalInputs : RemovePermission(rule)
  \/ \E u \in UserInputs, r \in RoleInputs : AssignRole(u, r)
  \/ \E u \in UserInputs, r \in RoleInputs : RemoveRole(u, r)
  \/ \E u \in UserInputs, r \in RoleInputs : GrantRevoke(u, r)
  \/ Restart

SpecStore == StoreInit /\ [][StoreNext]_vars

(***************************************************************************)
(* JWT manager (auth.JWTManager) and the tokens a client can present        *)
(***************************************************************************)

\* Token lifetime (JWTConfig.TokenExpiry) and the horizon of the clock, in
\* clock ticks.
TokenExpiry == 2
MaxNow == 3

Issuer == "inspector-gadget-os"

\* The empty token string ("" from extractToken: nothing presented).
NoToken == [kind |-> "absent"]
\* A string that is not three base64 segments.
GarbageToken == [kind |-> "garbage"]

\* JWTManager.GenerateToken at time t: HS256, signed with the server key,
\* iat = nbf = t, exp = t + tokenExpiry, sub = userID.
GenerateToken(userID, username, roles, t) ==
  [ kind |-> "jwt", alg |-> "HS256", sig |-> "server",
    user_id |-> userID, username |-> username, roles |-> roles,
    iss |-> Issuer, sub |-> userID,
    iat |-> t, nbf |-> t, exp |-> t + TokenExpiry ]

\* Fault injection for C1: a validator that still accepts a token at the
\* instant it expires (t > exp instead of t >= exp).
ValidateToken_AcceptsAtExpiry(tok, t) ==
  IF tok.kind # "jwt" THEN [ok |-> FALSE, err |-> "invalid token"]
  ELSE IF tok.alg # "HS256" THEN [ok |-> FALSE, err |-> "invalid token"]
  ELSE IF tok.sig # "server" THEN [ok |-> FALSE, err |-> "invalid token"]
  ELSE IF t > tok.exp THEN [ok |-> FALSE, err |-> "token expired"]
  ELSE IF t < tok.nbf THEN [ok |-> FALSE, err |-> "invalid token"]
  ELSE [ok |-> TRUE, err |-> ""]

\* JWTManager.ValidateToken at time t, in the order jwt.ParseWithClaims
\* works: segments, key function (HMAC methods only), signature, then the
\* registered claims (expired when t >= exp, not yet valid when t < nbf).
ValidateToken(tok, t) ==
  IF tok.kind # "jwt" THEN [ok |-> FALSE, err |-> "invalid token"]
  ELSE IF tok.alg # "HS256" THEN [ok |-> FALSE, err |-> "invalid token"]
  ELSE IF tok.sig # "server" THEN [ok |-> FALSE, err |-> "invalid token"]
  ELSE IF t >= tok.exp THEN [ok |-> FALSE, err |-> "token expired"]
  ELSE IF t < tok.nbf THEN [ok |-> FALSE, err |-> "invalid token"]
  ELSE [ok |-> TRUE, err |-> ""]

\* JWTManager.extractToken: the Authorization header when it has the
\* "Bearer " prefix, the `token` query parameter otherwise.
extractToken(req) ==
  IF req.scheme = "Bearer" THEN req.headerToken ELSE req.queryToken

\* The login table of createLoginHandler: username -> <<password, role>>.
ValidUsers ==
  [ u \in {"admin", "user", "readonly"} |->
      CASE u = "admin" -> <<"admin123", "admin">>
        [] u = "user" -> <<"user123", "user">>
        [] u = "readonly" -> <<"readonly123", "readonly">> ]

\* Every token the login and refresh handlers can have issued up to time t.
IssuedTokens(t) ==
  { GenerateToken(u, u, <<ValidUsers[u][2]>>, i) :
      u \in DOMAIN ValidUsers, i \in 0..t }

\* Tokens built without the server key from one issued now: re-signed with
\* another key, re-signed with the role list raised to admin, and unsigned
\* with alg "none".
ForgedTokens(t) ==
  UNION { { [m EXCEPT !.sig = "other"],
            [m EXCEPT !.sig = "other", !.roles = <<"admin">>],
            [m EXCEPT !.alg = "none", !.sig = "", !.roles = <<"admin">>] } :
          m \in { GenerateToken(u, u, <<ValidUsers[u][2]>>, t) :
                  u \in DOMAIN ValidUsers } }

\* What a client can put into a request at time t.
TokenInputs(t) == IssuedTokens(t) \cup ForgedTokens(t) \cup {NoToken, GarbageToken}

(***************************************************************************)
(* JWT manager used as a library: any configuration, a sub-second clock     *)
(***************************************************************************)

\* time.Second, which is jwt.TimePrecision, in ticks of the clock of these
\* calls: a tick is half a second.
Second == 2
\* The longest configured lifetime and the horizon of the clock, in ticks.
MaxTTL == 3
MaxClock == 3

\* jwt.NewNumericDate: the time truncated to jwt.TimePrecision.
NewNumericDate(t) == t - (t % Second)

\* JWTConfig values: two secrets, an empty and a set issuer, and lifetimes
\* from 0 (unset) to MaxTTL ticks.
JWTConfigs ==
  [ SecretKey : { "server", "other" },
    TokenExpiry : 0..MaxTTL,
    Issuer : { "", "test-issuer" } ]

\* NewJWTManager: a zero TokenExpiry becomes 24 hours, an empty Issuer the
\* default one.
NewJWTManager(config) ==
  [ secretKey |-> config.SecretKey,
    tokenExpiry |-> IF config.TokenExpiry = 0 THEN 24 * 60 * 60 * Second
                    ELSE config.TokenExpiry,
    issuer |-> IF config.Issuer = "" THEN Issuer ELSE config.Issuer ]

\* As GenerateTokenBy, with an expiry that is not truncated.
GenerateTokenBy_ExactExpiry(j, userID, username, roles, t) ==
  [ kind |-> "jwt", alg |-> "HS256", sig |-> j.secretKey,
    user_id |-> userID, username |-> username, roles |-> roles,
    iss |-> j.issuer, sub |-> userID,
    iat |-> NewNumericDate(t), nbf |-> NewNumericDate(t),
    exp |-> t + j.tokenExpiry ]

\* j.GenerateToken at time t: the claims hold NumericDates, the token is
\* signed HS256 with j's key.
GenerateTokenBy(j, userID, username, roles, t) ==
  [ kind |-> "jwt", alg |-> "HS256", sig |-> j.secretKey,
    user_id |-> userID, username |-> username, roles |-> roles,
    iss |-> j.issuer, sub |-> userID,
    iat |-> NewNumericDate(t), nbf |-> NewNumericDate(t),
    exp |-> NewNumericDate(t + j.tokenExpiry) ]

\* The signing methods of type *jwt.SigningMethodHMAC.
SigningMethodHMAC == { "HS256", "HS384", "HS512" }

NoClaims == [kind |-> "absent"]

\* j.ValidateToken at time t: jwt.ParseWithClaims with the key function
\* that admits HMAC methods only and no parser option: segments, method,
\* signature under j's key, then the registered claims (expired unless
\* t is before exp, not yet valid when t is before nbf). The issuer is not
\* looked at.
ValidateTokenBy(j, tok, t) ==
  IF tok.kind # "jwt" THEN [ok |-> FALSE, err |-> "invalid token", claims |-> NoClaims]
  ELSE IF tok.alg \notin SigningMethodHMAC
  THEN [ok |-> FALSE, err |-> "invalid token", claims |-> NoClaims]
  ELSE IF tok.sig # j.secretKey
  THEN [ok |-> FALSE, err |-> "invalid token", claims |-> NoClaims]
  ELSE IF ~(t < tok.exp)
  THEN [ok |-> FALSE, err |-> "token expired", claims |-> NoClaims]
  ELSE IF t < tok.nbf
  THEN [ok |-> FALSE, err |-> "invalid token", claims |-> NoClaims]
  ELSE [ok |-> TRUE, err |-> "", claims |-> tok]

\* As RefreshToken, minting from the claims without validating the token.
RefreshToken_Unvalidated(j, tok, t) ==
  IF tok.kind # "jwt" THEN [ok |-> FALSE, err |-> "invalid token", token |-> NoToken]
  ELSE [ ok |-> TRUE, err |-> "",
         token |-> GenerateTokenBy(j, tok.user_id, tok.username, tok.roles, t) ]

\* j.RefreshToken at time t.
RefreshToken(j, tok, t) ==
  LET v == ValidateTokenBy(j, tok, t)
  IN  IF ~v.ok THEN [ok |-> FALSE, err |-> v.err, token |-> NoToken]
      ELSE [ ok |-> TRUE, err |-> "",
             token |-> GenerateTokenBy(j, v.claims.user_id, v.claims.username,
                                       v.claims.roles, t) ]

\* What the callers pass: subjects, a display name, role lists.
SubjectInputs == { "user123", "user456" }
RoleListInputs == { <<>>, <<"user", "admin">>, <<"admin", "user">> }

\* A caller mints a token.
JwtGenerate(config, userID, roles, t) ==
  /\ jcall.op = "idle"
  /\ jcall' = [ op |-> "GenerateToken", j |-> NewJWTManager(config), t |-> t,
                userID |-> userID, username |-> "testuser", roles |-> roles,
                tok |-> GenerateTokenBy(NewJWTManager(config), userID,
                                        "testuser", roles, t),
                res |-> NoJwtCall ]

\* The token in hand is replaced by one a holder made from it without the
\* key: not three segments, re-signed with a key no manager has, or
\* unsigned with alg "none".
JwtTamper(how) ==
  /\ jcall.op = "GenerateToken"
  /\ jcall' = [ jcall EXCEPT
       !.op = "Tamper",
       !.tok = CASE how = "garbage" -> GarbageToken
                 [] how = "resign" -> [jcall.tok EXCEPT !.sig = "forger"]
                 [] how = "none" -> [jcall.tok EXCEPT !.alg = "none", !.sig = ""] ]

\* A manager validates the token in hand, at the time it was minted or
\* later.
JwtValidate(config, t) ==
  /\ jcall.op \in { "GenerateToken", "Tamper" }
  /\ t >= jcall.t
  /\ jcall' = [ jcall EXCEPT
       !.op = "ValidateToken", !.j = NewJWTManager(config), !.t = t,
       !.res = ValidateTokenBy(NewJWTManager(config), jcall.tok, t) ]

\* A manager refreshes the token in hand.
JwtRefresh(config, t) ==
  /\ jcall.op \in { "GenerateToken", "Tamper" }
  /\ t >= jcall.t
  /\ jcall' = [ jcall EXCEPT
       !.op = "RefreshToken", !.j = NewJWTManager(config), !.t = t,
       !.res = RefreshToken(NewJWTManager(config), jcall.tok, t) ]

jwtOtherVars == <<policy, grouping, db, now, resp, mcpVars, fsVars, tr, gen, frame>>

JwtInit ==
  /\ jcall = NoJwtCall
  /\ frame = NoFrame
  /\ tr = NoTransport
  /\ gen = NoGenerator
  /\ policy = DefaultPermissions
  /\ grouping = {}
  /\ db = [p |-> policy, g |-> grouping, fresh |-> TRUE]
  /\ now = 0
  /\ resp = [route |-> "idle"]
  /\ NoSession
  /\ NewMCPManager
  /\ NewSafeFS(ServerFsConfig)

JwtNext ==
  \/ /\ jcall.op = "idle"
     /\ \E config \in JWTConfigs, userID \in SubjectInputs,
           roles \in RoleListInputs, t \in 0..MaxClock :
          JwtGenerate(config, userID, roles, t)
     /\ UNCHANGED jwtOtherVars
  \/ /\ jcall.op = "GenerateToken"
     /\ \E how \in { "garbage", "resign", "none" } : JwtTamper(how)
     /\ UNCHANGED jwtOtherVars
  \/ /\ jcall.op \in { "GenerateToken", "Tamper" }
     /\ \E config \in JWTConfigs, t \in 0..MaxClock : JwtValidate(config, t)
     /\ UNCHANGED jwtOtherVars
  \/ /\ jcall.op \in { "GenerateToken", "Tamper" }
     /\ \E config \in JWTConfigs, t \in 0..MaxClock : JwtRefresh(config, t)
     /\ UNCHANGED jwtOtherVars

SpecJwt == JwtInit /\ [][JwtNext]_vars

(***************************************************************************)
(* Transports used directly: Send, Close and the goroutines around them     *)
(***************************************************************************)

\* The waits of StdioTransport.Close, in seconds, and the horizon of the
\* clock that runs while Close waits.
StdinGrace == 5
TermGrace == 2
MaxElapsed == 8

TransportKinds == { "stdio", "socket", "memory" }
\* Two goroutines that call Send, the one that calls Close, the monitor
\* goroutine Connect starts and the waiter goroutine Close starts.
Senders == { "s1", "s2" }
TransportGoroutines == Senders \cup { "closer", "monitor", "waiter" }
\* What the child of a stdio transport does: it exits on EOF on its stdin,
\* on the terminate signal only, on nothing short of a kill, or at any
\* moment of its own.
ChildBehaviours == { "eof", "term", "stubborn", "crash" }

\* A transport after New...Transport, and after Connect if connected: the
\* stdio child runs and Connect's goroutine sits in cmd.Wait.
NewTransport(kind, isConnected, behaviour) ==
  tr = [ kind |-> kind, connected |-> isConnected,
         mutex |-> [w |-> "none", r |-> {}],
         pc |-> [ g \in TransportGoroutines |->
                    IF g = "monitor" /\ kind = "stdio" /\ isConnected
                    THEN "wait" ELSE "idle" ],
         res |-> [ g \in Senders |-> "none" ],
         child |-> IF kind = "stdio" /\ isConnected THEN "running" ELSE "none",
         behaviour |-> behaviour,
         done |-> 0, elapsed |-> 0, log |-> <<>> ]

\* sync.RWMutex: a read lock is granted while no writer holds the mutex,
\* the write lock while nobody holds it.
CanRLock == tr.mutex.w = "none"
CanLock == tr.mutex.w = "none" /\ tr.mutex.r = {}

\* Send up to the write: t.mutex.RLock, the connected test, json.Marshal.
SendEnter(g) ==
  /\ tr.pc[g] = "idle"
  /\ CanRLock
  /\ tr' = [ tr EXCEPT
       !.mutex.r = @ \cup {g},
       !.pc[g] = IF tr.connected THEN "write" ELSE "unlock",
       !.res[g] = IF tr.connected THEN "none" ELSE "transport not connected" ]

\* The write of the frame (stdin.Write, encoder.Encode, the channel send)
\* completes; it fails on a pipe whose reader is gone.
SendWrite(g) ==
  /\ tr.pc[g] = "write"
  /\ tr' = [ tr EXCEPT
       !.pc[g] = "unlock",
       !.res[g] = IF tr.kind = "stdio" /\ tr.child = "exited"
                  THEN "failed to write message" ELSE "nil" ]

\* Send returns: the deferred unlock.
SendReturn(g) ==
  /\ tr.pc[g] = "unlock"
  /\ tr' = [tr EXCEPT !.mutex.r = @ \ {g}, !.pc[g] = "idle"]

\* An effect of Close on the child, with the time since Close began to
\* wait and whether the child had exited by then.
CloseEffect(ev) == [ev |-> ev, at |-> tr.elapsed, exited |-> tr.child = "exited"]

\* Close up to its first wait: t.mutex.Lock, the connected test and, for
\* stdio, stdin.Close, the waiter goroutine and the 5 s timer; the socket
\* and in-memory transports close and are done.
CloseEnter ==
  /\ tr.pc["closer"] = "idle"
  /\ CanLock
  /\ tr' = IF ~tr.connected
           THEN [tr EXCEPT !.mutex.w = "closer", !.pc["closer"] = "unlock"]
           ELSE IF tr.kind = "stdio"
           THEN [tr EXCEPT !.mutex.w = "closer", !.pc["closer"] = "select5",
                           !.pc["waiter"] = "wait", !.elapsed = 0,
                           !.log = Append(@, CloseEffect("stdin.Close"))]
           ELSE [tr EXCEPT !.mutex.w = "closer", !.pc["closer"] = "unlock",
                           !.connected = FALSE]

\* case err := <-done, in the first select.
CloseExited ==
  /\ tr.pc["closer"] = "select5"
  /\ tr.done = 1
  /\ tr' = [tr EXCEPT !.done = 0, !.connected = FALSE, !.pc["closer"] = "unlock"]

\* case <-time.After(5 * time.Second): the terminate signal (cmd.Process is
\* set since Start succeeded), then the second select with its 2 s timer.
CloseTerminate ==
  /\ tr.pc["closer"] = "select5"
  /\ tr.elapsed >= StdinGrace
  /\ tr' = [tr EXCEPT !.log = Append(@, CloseEffect("SIGTERM")), !.pc["closer"] = "select2"]

\* The place of the terminate signal in the log.
TerminatedAt == (CHOOSE i \in 1..Len(tr.log) : tr.log[i].ev = "SIGTERM")

\* case <-done, in the second select.
CloseTerminated ==
  /\ tr.pc["closer"] = "select2"
  /\ tr.done = 1
  /\ tr' = [tr EXCEPT !.done = 0, !.connected = FALSE, !.pc["closer"] = "unlock"]

\* As CloseKill, giving up without the kill.
CloseKill_GivesUp ==
  /\ tr.pc["closer"] = "select2"
  /\ tr.elapsed >= tr.log[TerminatedAt].at + TermGrace
  /\ tr' = [tr EXCEPT !.connected = FALSE, !.pc["closer"] = "unlock"]

\* case <-time.After(2 * time.Second), in the second select: the kill.
CloseKill ==
  /\ tr.pc["closer"] = "select2"
  /\ tr.elapsed >= tr.log[TerminatedAt].at + TermGrace
  /\ tr' = [tr EXCEPT !.log = Append(@, CloseEffect("Kill")), !.connected = FALSE,
                      !.pc["closer"] = "unlock"]

\* Close returns: the deferred unlock.
CloseReturn ==
  /\ tr.pc["closer"] = "unlock"
  /\ tr' = [tr EXCEPT !.mutex.w = "none", !.pc["closer"] = "returned"]

\* A second passes while Close waits.
CloseTick ==
  /\ tr.pc["closer"] \in { "select5", "select2" }
  /\ tr.elapsed < MaxElapsed
  /\ tr' = [tr EXCEPT !.elapsed = @ + 1]

Sent(ev) == \E i \in 1..Len(tr.log) : tr.log[i].ev = ev

\* The child exits: killed, or as its behaviour has it.
ChildExit ==
  /\ tr.child = "running"
  /\ \/ Sent("Kill")
     \/ tr.behaviour = "crash"
     \/ tr.behaviour = "eof" /\ Sent("stdin.Close")
     \/ tr.behaviour = "term" /\ Sent("SIGTERM")
  /\ tr' = [tr EXCEPT !.child = "exited"]

\* The goroutine of Close: done <- t.cmd.Wait().
WaiterDone ==
  /\ tr.pc["waiter"] = "wait"
  /\ tr.child = "exited"
  /\ tr' = [tr EXCEPT !.done = 1, !.pc["waiter"] = "returned"]

\* The goroutine of Connect: after cmd.Wait, connected = false under the
\* write lock.
MonitorDone ==
  /\ tr.pc["monitor"] = "wait"
  /\ tr.child = "exited"
  /\ CanLock
  /\ tr' = [tr EXCEPT !.connected = FALSE, !.pc["monitor"] = "returned"]

transportOtherVars == <<policy, grouping, db, now, resp, mcpVars, fsVars, jcall, gen, frame>>

TransportInit ==
  /\ \E kind \in TransportKinds, isConnected \in BOOLEAN,
        behaviour \in ChildBehaviours :
       /\ kind # "stdio" => behaviour = "eof"
       /\ NewTransport(kind, isConnected, behaviour)
  /\ gen = NoGenerator
  /\ jcall = NoJwtCall
  /\ frame = NoFrame
  /\ policy = DefaultPermissions
  /\ grouping = {}
  /\ db = [p |-> policy, g |-> grouping, fresh |-> TRUE]
  /\ now = 0
  /\ resp = [route |-> "idle"]
  /\ NoSession
  /\ NewMCPManager
  /\ NewSafeFS(ServerFsConfig)

TransportNext ==
  \/ \E g \in Senders : SendEnter(g) /\ UNCHANGED transportOtherVars
  \/ \E g \in Senders : SendWrite(g) /\ UNCHANGED transportOtherVars
  \/ \E g \in Senders : SendReturn(g) /\ UNCHANGED transportOtherVars
  \/ CloseEnter /\ UNCHANGED transportOtherVars
  \/ CloseExited /\ UNCHANGED transportOtherVars
  \/ CloseTerminate /\ UNCHANGED transportOtherVars
  \/ CloseTerminated /\ UNCHANGED transportOtherVars
  \/ CloseKill /\ UNCHANGED transportOtherVars
  \/ CloseReturn /\ UNCHANGED transportOtherVars
  \/ CloseTick /\ UNCHANGED transportOtherVars
  \/ ChildExit /\ UNCHANGED transportOtherVars
  \/ WaiterDone /\ UNCHANGED transportOtherVars
  \/ MonitorDone /\ UNCHANGED transportOtherVars

SpecTransport == TransportInit /\ [][TransportNext]_vars

(***************************************************************************)
(* JSON-RPC frames: Message and ValidateMessage                             *)
(***************************************************************************)

\* The JSON-RPC error code InvalidRequest.
InvalidRequest == -32600

\* Message.IsRequest, IsResponse, IsNotification; a nil interface or
\* pointer is "nil", an empty Method "".
IsRequest(msg) == msg.Method # "" /\ msg.ID # "nil"
IsResponse(msg) ==
  msg.ID # "nil" /\ msg.Method = "" /\ (msg.Result # "nil" \/ msg.Error # "nil")
IsNotification(msg) == msg.Method # "" /\ msg.ID = "nil"

MCPError(code, message) == [nil |-> FALSE, code |-> code, message |-> message]
NilError == [nil |-> TRUE, code |-> 0, message |-> ""]

\* ValidateMessage, test by test, in the order of the code.
ValidateMessage(msg) ==
  IF msg.JSONRPC # "2.0" THEN MCPError(InvalidRequest, "Invalid JSON-RPC version")
  ELSE IF IsRequest(msg) /\ msg.Method = ""
  THEN MCPError(InvalidRequest, "Request missing method")
  ELSE IF IsRequest(msg) /\ msg.ID = "nil"
  THEN MCPError(InvalidRequest, "Request missing ID")
  ELSE IF IsResponse(msg) /\ msg.ID = "nil"
  THEN MCPError(InvalidRequest, "Response missing ID")
  ELSE IF IsResponse(msg) /\ msg.Result = "nil" /\ msg.Error = "nil"
  THEN MCPError(InvalidRequest, "Response missing result or error")
  ELSE NilError

\* The Messages a caller can hold: any version, id, method, result, error.
MessageInputs ==
  [ JSONRPC : { "2.0", "1.0", "" },
    ID : { "nil", "number", "string" },
    Method : { "", "tools/list", "notifications/tools/list_changed" },
    Result : { "nil", "object" },
    Error : { "nil", "error" } ]

\* A caller gets hold of a Message ...
FrameArrives(msg) ==
  /\ frame.op = "idle"
  /\ frame' = [op |-> "held", msg |-> msg, err |-> NilError]

\* ... and hands it to ValidateMessage.
FrameValidated ==
  /\ frame.op = "held"
  /\ frame' = [frame EXCEPT !.op = "validated", !.err = ValidateMessage(frame.msg)]

frameOtherVars == <<policy, grouping, db, now, resp, mcpVars, fsVars, jcall, tr, gen>>

FrameInit ==
  /\ frame = NoFrame
  /\ tr = NoTransport
  /\ gen = NoGenerator
  /\ jcall = NoJwtCall
  /\ policy = DefaultPermissions
  /\ grouping = {}
  /\ db = [p |-> policy, g |-> grouping, fresh |-> TRUE]
  /\ now = 0
  /\ resp = [route |-> "idle"]
  /\ NoSession
  /\ NewMCPManager
  /\ NewSafeFS(ServerFsConfig)

FrameNext ==
  \/ /\ frame.op = "idle"
     /\ \E msg \in MessageInputs : FrameArrives(msg)
     /\ UNCHANGED frameOtherVars
  \/ FrameValidated /\ UNCHANGED frameOtherVars

SpecFrame == FrameInit /\ [][FrameNext]_vars

(***************************************************************************)
(* MessageIDGenerator used directly by concurrent callers                   *)
(***************************************************************************)

\* The calls of Next the callers make between them.
MaxIds == 4
IdCallers == { "g1", "g2", "g3" }

\* NewMessageIDGenerator, nobody calling yet; issued is the list of the
\* values returned, in the order the calls returned them.
NewMessageIDGenerator ==
  gen = [ counter |-> 0, mutex |-> "none",
          pc |-> [ g \in IdCallers |-> "idle" ],
          tmp |-> [ g \in IdCallers |-> 0 ],
          issued |-> <<>>, calls |-> 0 ]

\* As NextLock, without waiting for the mutex.
NextLock_NoMutex(g) ==
  /\ gen.pc[g] = "idle"
  /\ gen.calls < MaxIds
  /\ gen' = [gen EXCEPT !.pc[g] = "read", !.calls = @ + 1]

\* Next: g.mutex.Lock().
NextLock(g) ==
  /\ gen.pc[g] = "idle"
  /\ gen.calls < MaxIds
  /\ gen.mutex = "none"
  /\ gen' = [gen EXCEPT !.mutex = g, !.pc[g] = "read", !.calls = @ + 1]

\* g.counter++ reads the counter ...
NextRead(g) ==
  /\ gen.pc[g] = "read"
  /\ gen' = [gen EXCEPT !.tmp[g] = gen.counter, !.pc[g] = "write"]

\* ... and writes it back, one higher (a uint64: MaxIds calls stay far
\* from its wrap).
NextWrite(g) ==
  /\ gen.pc[g] = "write"
  /\ gen' = [gen EXCEPT !.counter = gen.tmp[g] + 1, !.pc[g] = "return"]

\* return g.counter, and the deferred unlock.
NextReturn(g) ==
  /\ gen.pc[g] = "return"
  /\ gen' = [gen EXCEPT !.issued = Append(@, gen.counter),
                        !.mutex = IF @ = g THEN "none" ELSE @,
                        !.pc[g] = "idle"]

idsOtherVars == <<policy, grouping, db, now, resp, mcpVars, fsVars, jcall, tr, frame>>

IdsInit ==
  /\ NewMessageIDGenerator
  /\ tr = NoTransport
  /\ jcall = NoJwtCall
  /\ frame = NoFrame
  /\ policy = DefaultPermissions
  /\ grouping = {}
  /\ db = [p |-> policy, g |-> grouping, fresh |-> TRUE]
  /\ now = 0
  /\ resp = [route |-> "idle"]
  /\ NoSession
  /\ NewMCPManager
  /\ NewSafeFS(ServerFsConfig)

IdsNext ==
  \/ \E g \in IdCallers : NextLock(g) /\ UNCHANGED idsOtherVars
  \/ \E g \in IdCallers : NextRead(g) /\ UNCHANGED idsOtherVars
  \/ \E g \in IdCallers : NextWrite(g) /\ UNCHANGED idsOtherVars
  \/ \E g \in IdCallers : NextReturn(g) /\ UNCHANGED idsOtherVars

SpecIds == IdsInit /\ [][IdsNext]_vars

(***************************************************************************)
(* Gin request context and the middleware of the integrated server          *)
(***************************************************************************)

NoBody == [error |-> "", required |-> <<>>, token |-> NoToken]

\* gin.Context at the start of a request, with the store it reads.
NewContext ==
  [ status |-> 0, aborted |-> FALSE, claims |-> NoToken, ran |-> <<>>,
    effects |-> {}, body |-> NoBody, rid |-> "",
    policy |-> policy, grouping |-> grouping ]

\* c.JSON: the status line is written once; later writes keep it.
JSON(c, status, body) ==
  IF c.status = 0 THEN [c EXCEPT !.status = status, !.body = body] ELSE c

\* c.Abort: no later handler of the chain runs.
Abort(c) == [c EXCEPT !.aborted = TRUE]

\* auth.GetUserFromContext: the claims stored under "user_claims".
HasUserClaims(c) == c.claims.kind = "jwt"

\* JWTManager.Middleware.
Middleware(c, req, t) ==
  LET tokenString == extractToken(req)
      v == ValidateToken(tokenString, t)
  IN  IF tokenString.kind = "absent"
      THEN Abort(JSON(c, 401, [NoBody EXCEPT !.error = "missing token"]))
      ELSE IF ~v.ok
      THEN Abort(JSON(c, 401, [NoBody EXCEPT !.error = v.err]))
      ELSE [c EXCEPT !.claims = tokenString]

\* The elements of a Go slice.
Elems(seq) == { seq[i] : i \in 1..Len(seq) }

\* Fault injection for C2: a permission gate that writes the 403 but forgets
\* c.Abort().
RequirePermission_NoAbort(c, object, action) ==
  LET q == [c EXCEPT !.effects = @ \cup {"policy_check"}] IN
  IF c.claims.kind # "jwt"
  THEN [JSON(c, 401, [error |-> "authentication required", required |-> <<>>,
                      token |-> [kind |-> "absent"]])
          EXCEPT !.aborted = TRUE]
  ELSE IF EnforceIn(c.policy, c.grouping, c.claims.username, object, action)
  THEN q
  ELSE IF \E i \in 1..Len(c.claims.roles) :
            EnforceIn(c.policy, c.grouping, RoleKey(c.claims.roles[i]), object, action)
  THEN q
  ELSE JSON(q, 403, [error |-> "insufficient permissions",
                     required |-> <<object, action>>,
                     token |-> [kind |-> "absent"]])

\* As RequirePermission, but a token that lists any role is let through
\* without asking the enforcer about that role.
RequirePermission_RolesUnchecked(c, object, action) ==
  LET q == [c EXCEPT !.effects = @ \cup {"policy_check"}] IN
  IF ~HasUserClaims(c)
  THEN Abort(JSON(c, 401, [NoBody EXCEPT !.error = "authentication required"]))
  ELSE IF EnforceIn(c.policy, c.grouping, c.claims.username, object, action)
  THEN q
  ELSE IF c.claims.roles # <<>>
  THEN q
  ELSE Abort(JSON(q, 403, [NoBody EXCEPT !.error = "insufficient permissions",
                                        !.required = <<object, action>>]))

\* RBACMiddleware.RequirePermission(object, action): the direct check on
\* claims.Username, then "role:"+role for each role of the token.
RequirePermission(c, object, action) ==
  LET q == [c EXCEPT !.effects = @ \cup {"policy_check"}] IN
  IF ~HasUserClaims(c)
  THEN Abort(JSON(c, 401, [NoBody EXCEPT !.error = "authentication required"]))
  ELSE IF EnforceIn(c.policy, c.grouping, c.claims.username, object, action)
  THEN q
  ELSE IF \E role \in Elems(c.claims.roles) :
            EnforceIn(c.policy, c.grouping, RoleKey(role), object, action)
  THEN q
  ELSE Abort(JSON(q, 403, [NoBody EXCEPT !.error = "insufficient permissions",
                                        !.required = <<object, action>>]))

\* CheckUserRole on the store the context reads.
CheckUserRoleIn(g, user, role) ==
  role \in { StripRolePrefix(r) : r \in DirectRoles(g, user) }

\* RBACMiddleware.RequireRole(requiredRole): the role must be granted to
\* claims.Username in the store.
RequireRole(c, requiredRole) ==
  LET q == [c EXCEPT !.effects = @ \cup {"policy_check"}] IN
  IF ~HasUserClaims(c)
  THEN Abort(JSON(c, 401, [NoBody EXCEPT !.error = "authentication required"]))
  ELSE IF ~CheckUserRoleIn(c.grouping, c.claims.username, requiredRole)
  THEN Abort(JSON(q, 403, [NoBody EXCEPT !.error = "insufficient role"]))
  ELSE q

\* As RequireAnyRole, but looking for the role in the token's role list.
RequireAnyRole_TokenRoles(c, roles) ==
  LET q == [c EXCEPT !.effects = @ \cup {"policy_check"}] IN
  IF ~HasUserClaims(c)
  THEN Abort(JSON(c, 401, [NoBody EXCEPT !.error = "authentication required"]))
  ELSE IF \E r \in Elems(roles) : r \in Elems(c.claims.roles)
  THEN q
  ELSE Abort(JSON(q, 403, [NoBody EXCEPT !.error = "insufficient role"]))

\* RBACMiddleware.RequireAnyRole(roles...).
RequireAnyRole(c, roles) ==
  LET q == [c EXCEPT !.effects = @ \cup {"policy_check"}] IN
  IF ~HasUserClaims(c)
  THEN Abort(JSON(c, 401, [NoBody EXCEPT !.error = "authentication required"]))
  ELSE IF \E r \in Elems(roles) : CheckUserRoleIn(c.grouping, c.claims.username, r)
  THEN q
  ELSE Abort(JSON(q, 403, [NoBody EXCEPT !.error = "insufficient role"]))

\* RBACMiddleware.RequireAllRoles(roles...): the first listed role the
\* store does not grant ends the request.
RequireAllRoles(c, roles) ==
  LET q == [c EXCEPT !.effects = @ \cup {"policy_check"}] IN
  IF ~HasUserClaims(c)
  THEN Abort(JSON(c, 401, [NoBody EXCEPT !.error = "authentication required"]))
  ELSE IF \E i \in 1..Len(roles) : ~CheckUserRoleIn(c.grouping, c.claims.username, roles[i])
  THEN Abort(JSON(q, 403, [NoBody EXCEPT !.error = "insufficient roles"]))
  ELSE q

\* corsMiddleware: a preflight is answered 204 and aborted.
corsMiddleware(c, req) ==
  IF req.method = "OPTIONS" THEN Abort([c EXCEPT !.status = 204]) ELSE c

\* logging.RequestIDMiddleware: the client's X-Request-ID, or a fresh uuid.
RequestIDMiddleware(c, req) ==
  [c EXCEPT !.rid = IF req.rid = "" THEN "uuid" ELSE req.rid]

(***************************************************************************)
(* Route handlers                                                           *)
(***************************************************************************)

LowerLetters ==
  << "a", "b", "c", "d", "e", "f", "g", "h", "i", "j", "k", "l", "m",
     "n", "o", "p", "q", "r", "s", "t", "u", "v", "w", "x", "y", "z" >>
UpperLetters ==
  << "A", "B", "C", "D", "E", "F", "G", "H", "I", "J", "K", "L", "M",
     "N", "O", "P", "Q", "R", "S", "T", "U", "V", "W", "X", "Y", "Z" >>
Digits == { "0", "1", "2", "3", "4", "5", "6", "7", "8", "9" }

\* As isValidGadgetName, but a name of 50 characters is refused.
isValidGadgetName_Under50(name) ==
  /\ \A i \in 1..Len(name) :
       SubSeq(name, i, i) \in
         Elems(LowerLetters) \cup Elems(UpperLetters) \cup Digits \cup {"-", "_"}
  /\ Len(name) > 0
  /\ Len(name) < 50

\* GadgetIntegration.isValidGadgetName: letters, digits, '-' and '_' only,
\* length 1..50.
isValidGadgetName(name) ==
  /\ \A i \in 1..Len(name) :
       SubSeq(name, i, i) \in
         Elems(LowerLetters) \cup Elems(UpperLetters) \cup Digits \cup {"-", "_"}
  /\ Len(name) > 0
  /\ Len(name) <= 50

\* Simple case folding of one character, as strings.EqualFold compares.
FoldChar(ch) ==
  IF \E i \in 1..26 : UpperLetters[i] = ch
  THEN LowerLetters[CHOOSE i \in 1..26 : UpperLetters[i] = ch]
  ELSE ch

RECURSIVE FoldString(_)
FoldString(str) ==
  IF Len(str) = 0 THEN ""
  ELSE FoldChar(SubSeq(str, 1, 1)) \o FoldString(SubSeq(str, 2, Len(str)))

\* GadgetIntegration.isSystemGadget.
SystemGadgets == { "sysinfo", "network-scanner", "process", "hardware" }

\* As isSystemGadget, but comparing the name as it is spelled.
isSystemGadget_CaseSensitive(name) == name \in SystemGadgets

isSystemGadget(name) == \E sg \in SystemGadgets : FoldString(name) = FoldString(sg)

\* RBACMiddleware.CheckPermission, the in-handler form of RequirePermission.
CheckPermission(c, object, action) ==
  /\ HasUserClaims(c)
  /\ \/ EnforceIn(c.policy, c.grouping, c.claims.username, object, action)
     \/ \E role \in Elems(c.claims.roles) :
          EnforceIn(c.policy, c.grouping, RoleKey(role), object, action)

Effect(c, e) == [c EXCEPT !.effects = @ \cup {e}]

\* createLoginHandler.
LoginHandler(c, req, t) ==
  IF req.username \in DOMAIN ValidUsers /\ ValidUsers[req.username][1] = req.password
  THEN JSON(c, 200,
         [NoBody EXCEPT !.token =
            GenerateToken(req.username, req.username,
                          <<ValidUsers[req.username][2]>>, t)])
  ELSE JSON(c, 401, [NoBody EXCEPT !.error = "Invalid credentials"])

\* createRefreshHandler.
RefreshHandler(c, t) ==
  IF ~HasUserClaims(c)
  THEN JSON(c, 401, [NoBody EXCEPT !.error = "Invalid token"])
  ELSE JSON(c, 200,
         [NoBody EXCEPT !.token =
            GenerateToken(c.claims.user_id, c.claims.username, c.claims.roles, t)])

\* RBACAPIHandler.AssignUserRole / RemoveUserRole: 400 when the store refuses.
AssignUserRole(c, req) ==
  LET e == <<req.username, RoleKey(req.role)>> IN
  IF e \in c.grouping
  THEN JSON(Effect(c, "store_write"), 400, [NoBody EXCEPT !.error = "failed to assign role"])
  ELSE JSON([Effect(c, "store_write") EXCEPT !.grouping = @ \cup {e}], 200, NoBody)

RemoveUserRole(c, req) ==
  LET e == <<req.username, RoleKey(req.role)>> IN
  IF e \notin c.grouping
  THEN JSON(Effect(c, "store_write"), 400, [NoBody EXCEPT !.error = "failed to remove role"])
  ELSE JSON([Effect(c, "store_write") EXCEPT !.grouping = @ \ {e}], 200, NoBody)

\* RBACAPIHandler.AddPermission / AddRolePermission (the rule subject is the
\* request's subject, resp. "role:"+role) and their Remove counterparts.
AddPermissionHandler(c, rule) ==
  IF rule \in c.policy
  THEN JSON(Effect(c, "store_write"), 400, [NoBody EXCEPT !.error = "failed to add permission"])
  ELSE JSON([Effect(c, "store_write") EXCEPT !.policy = @ \cup {rule}], 200, NoBody)

RemovePermissionHandler(c, rule) ==
  IF rule \notin c.policy
  THEN JSON(Effect(c, "store_write"), 400, [NoBody EXCEPT !.error = "failed to remove permission"])
  ELSE JSON([Effect(c, "store_write") EXCEPT !.policy = @ \ {rule}], 200, NoBody)

\* The read-only RBAC handlers (GetAllUsers, GetUser, GetUserPermissions,
\* GetAllRoles, GetRole, GetCurrentUser, GetCurrentUserPermissions, GetStats).
RbacReadHandler(c) == JSON(Effect(c, "policy_check"), 200, NoBody)

\* createFileReadHandler / createFileWriteHandler / createFileListHandler:
\* the sandbox operation runs and its verdict decides between 200 and 400.
FileHandler(c, req) ==
  JSON(Effect(c, "file_op"), IF req.ok THEN 200 ELSE 400, NoBody)

\* The MCP handlers call into the peer manager.
McpHandler(c, req) ==
  JSON(Effect(c, "peer_call"), IF req.ok THEN 200 ELSE 400, NoBody)

\* GadgetIntegration.ListGadgets: runs the gadget binary.
ListGadgets(c, req) ==
  JSON(Effect(c, "gadget_spawn"), IF req.ok THEN 200 ELSE 500, NoBody)

\* GadgetIntegration.GetGadgetInfo.
GetGadgetInfo(c, req) ==
  IF ~isValidGadgetName(req.gadget)
  THEN JSON(c, 400, [NoBody EXCEPT !.error = "Invalid gadget name"])
  ELSE JSON(Effect(c, "gadget_spawn"), IF req.ok THEN 200 ELSE 404, NoBody)

\* GadgetIntegration.ExecuteGadget.
ExecuteGadget(c, req) ==
  IF ~isValidGadgetName(req.gadget)
  THEN JSON(c, 400, [NoBody EXCEPT !.error = "Invalid gadget name"])
  ELSE IF ~req.json
  THEN JSON(c, 400, [NoBody EXCEPT !.error = "bind"])
  ELSE IF ~HasUserClaims(c)
  THEN JSON(c, 401, [NoBody EXCEPT !.error = "Authentication required"])
  ELSE IF isSystemGadget(req.gadget) /\ ~CheckPermission(c, "system", "manage")
  THEN JSON(Effect(c, "policy_check"), 403,
            [NoBody EXCEPT !.error = "System gadgets require admin permissions"])
  ELSE JSON(Effect(c, "gadget_spawn"), IF req.ok THEN 200 ELSE 500, NoBody)

\* GadgetIntegration.ExecuteSystemGadget on the static route
\* /gadgets/sysinfo/execute: c.Param("name") is empty there.
ExecuteSystemGadget(c, req) ==
  LET gadgetName == "" IN
  IF ~isSystemGadget(gadgetName)
  THEN JSON(c, 400, [NoBody EXCEPT !.error = "Not a system gadget"])
  ELSE JSON(Effect(c, "gadget_spawn"), IF req.ok THEN 200 ELSE 500, NoBody)

\* router.NoRoute for a non-GET request.
NoRouteHandler(c) == JSON(c, 404, [NoBody EXCEPT !.error = "not found"])

(***************************************************************************)
(* Routing table of initializeServer and the request life cycle             *)
(***************************************************************************)

H(kind, object, action, roles) ==
  [kind |-> kind, object |-> object, action |-> action, roles |-> roles]
Hjwt == H("jwt", "", "", <<>>)
Hperm(object, action) == H("perm", object, action, <<>>)
\* AdminOnly = RequireRole("admin"); UserOrAdmin = RequireAnyRole("user", "admin").
AdminOnly == H("role", "", "", <<"admin">>)
UserOrAdmin == H("anyrole", "", "", <<"user", "admin">>)
FileSystemRead == Hperm("filesystem", "read")
FileSystemWrite == Hperm("filesystem", "write")
AIAccess == Hperm("ai", "access")
Hfinal(name) == H("final", name, "", <<>>)

Route(method, path, chain) ==
  [name |-> method \o " " \o path, method |-> method, chain |-> chain]

\* router.Use(...): what runs ahead of every chain.  (gin.Recovery only acts
\* on a panic; AccessLogMiddleware acts after the chain, see ServeHTTP.)
GlobalChain == << H("cors", "", "", <<>>), H("requestid", "", "", <<>>) >>

\* router.Group("/api/auth").
AuthRoutes ==
  { Route("POST", "/api/auth/login", <<Hfinal("Login")>>),
    Route("POST", "/api/auth/refresh", <<Hjwt, Hfinal("Refresh")>>) }

\* RBACAPIHandler.RegisterRoutes under api (api.Use(jwtManager.Middleware())).
RbacRoutes ==
  { Route("GET", "/api/rbac/users", <<Hjwt, AdminOnly, Hfinal("RbacRead")>>),
    Route("GET", "/api/rbac/users/:username", <<Hjwt, AdminOnly, Hfinal("RbacRead")>>),
    Route("POST", "/api/rbac/users/:username/roles", <<Hjwt, AdminOnly, Hfinal("AssignUserRole")>>),
    Route("DELETE", "/api/rbac/users/:username/roles/:role", <<Hjwt, AdminOnly, Hfinal("RemoveUserRole")>>),
    Route("GET", "/api/rbac/users/:username/permissions", <<Hjwt, AdminOnly, Hfinal("RbacRead")>>),
    Route("GET", "/api/rbac/roles", <<Hjwt, AdminOnly, Hfinal("RbacRead")>>),
    Route("GET", "/api/rbac/roles/:role", <<Hjwt, AdminOnly, Hfinal("RbacRead")>>),
    Route("POST", "/api/rbac/roles/:role/permissions", <<Hjwt, AdminOnly, Hfinal("AddRolePermission")>>),
    Route("DELETE", "/api/rbac/roles/:role/permissions", <<Hjwt, AdminOnly, Hfinal("RemoveRolePermission")>>),
    Route("POST", "/api/rbac/permissions", <<Hjwt, AdminOnly, Hfinal("AddPermission")>>),
    Route("DELETE", "/api/rbac/permissions", <<Hjwt, AdminOnly, Hfinal("RemovePermission")>>),
    Route("GET", "/api/rbac/me", <<Hjwt, UserOrAdmin, Hfinal("RbacRead")>>),
    Route("GET", "/api/rbac/me/permissions", <<Hjwt, UserOrAdmin, Hfinal("RbacRead")>>),
    Route("GET", "/api/rbac/stats", <<Hjwt, AdminOnly, Hfinal("RbacRead")>>) }

\* GadgetIntegration.RegisterRoutes under api.
GadgetRoutes ==
  { Route("GET", "/api/gadgets", <<Hjwt, UserOrAdmin, Hfinal("ListGadgets")>>),
    Route("GET", "/api/gadgets/:name/info", <<Hjwt, UserOrAdmin, Hfinal("GetGadgetInfo")>>),
    Route("POST", "/api/gadgets/:name/execute",
          <<Hjwt, Hperm("gadgets", "execute"), Hfinal("ExecuteGadget")>>),
    Route("POST", "/api/gadgets/sysinfo/execute",
          <<Hjwt, AdminOnly, Hfinal("ExecuteSystemGadget")>>) }

\* api.Group("/fs").
FsRoutes ==
  { Route("GET", "/api/fs/read", <<Hjwt, FileSystemRead, Hfinal("File")>>),
    Route("POST", "/api/fs/write", <<Hjwt, FileSystemWrite, Hfinal("File")>>),
    Route("GET", "/api/fs/list", <<Hjwt, FileSystemRead, Hfinal("File")>>) }

\* api.Group("/mcp") with mcpAPI.Use(rbacMiddleware.AIAccess()).
McpRoutes ==
  { Route("GET", "/api/mcp/servers", <<Hjwt, AIAccess, Hfinal("Mcp")>>),
    Route("POST", "/api/mcp/servers/:name/connect", <<Hjwt, AIAccess, Hfinal("Mcp")>>),
    Route("DELETE", "/api/mcp/servers/:name", <<Hjwt, AIAccess, Hfinal("Mcp")>>),
    Route("GET", "/api/mcp/resources", <<Hjwt, AIAccess, Hfinal("Mcp")>>),
    Route("POST", "/api/mcp/tools/:server/:tool", <<Hjwt, AIAccess, Hfinal("Mcp")>>) }

\* A CORS preflight matches no registered route: the global chain, then
\* router.NoRoute.
PreflightRoute == Route("OPTIONS", "/api/fs/read", <<Hfinal("NoRoute")>>)

Routes ==
  AuthRoutes \cup RbacRoutes \cup GadgetRoutes \cup FsRoutes \cup McpRoutes
    \cup {PreflightRoute}

\* The registered routes under /api other than the login route.
ProtectedRoutes ==
  { r \in Routes : r.method # "OPTIONS" /\ r.name # "POST /api/auth/login" }

\* The final handler of a chain.
Final(name, c, req, t) ==
  CASE name = "Login" -> LoginHandler(c, req, t)
    [] name = "Refresh" -> RefreshHandler(c, t)
    [] name = "RbacRead" -> RbacReadHandler(c)
    [] name = "AssignUserRole" -> AssignUserRole(c, req)
    [] name = "RemoveUserRole" -> RemoveUserRole(c, req)
    [] name = "AddRolePermission" ->
         AddPermissionHandler(c, <<RoleKey(req.role), req.rule[2], req.rule[3]>>)
    [] name = "RemoveRolePermission" ->
         RemovePermissionHandler(c, <<RoleKey(req.role), req.rule[2], req.rule[3]>>)
    [] name = "AddPermission" -> AddPermissionHandler(c, req.rule)
    [] name = "RemovePermission" -> RemovePermissionHandler(c, req.rule)
    [] name = "File" -> FileHandler(c, req)
    [] name = "Mcp" -> McpHandler(c, req)
    [] name = "ListGadgets" -> ListGadgets(c, req)
    [] name = "GetGadgetInfo" -> GetGadgetInfo(c, req)
    [] name = "ExecuteGadget" -> ExecuteGadget(c, req)
    [] name = "ExecuteSystemGadget" -> ExecuteSystemGadget(c, req)
    [] name = "NoRoute" -> NoRouteHandler(c)

\* The tag a handler leaves in the context's trace of handlers run.
HandlerTag(h) == IF h.kind = "final" THEN h.object ELSE h.kind

RunHandler(h, c, req, t) ==
  CASE h.kind = "cors" -> corsMiddleware(c, req)
    [] h.kind = "requestid" -> RequestIDMiddleware(c, req)
    [] h.kind = "jwt" -> Middleware(c, req, t)
    [] h.kind = "perm" -> RequirePermission(c, h.object, h.action)
    [] h.kind = "role" -> RequireRole(c, h.roles[1])
    [] h.kind = "anyrole" -> RequireAnyRole(c, h.roles)
    [] h.kind = "allroles" -> RequireAllRoles(c, h.roles)
    [] h.kind = "final" -> Final(h.object, c, req, t)

\* gin's c.Next(): the handlers of the chain in order, until one aborts.
RECURSIVE RunChain(_, _, _, _, _)
RunChain(chain, i, c, req, t) ==
  IF i > Len(chain) \/ c.aborted THEN c
  ELSE RunChain(chain, i + 1,
                RunHandler(chain[i], [c EXCEPT !.ran = Append(@, HandlerTag(chain[i]))],
                           req, t),
                req, t)

\* The :name a request carries (the name "sysinfo" itself is routed to the
\* static route): ordinary and system names, other characters, and the
\* lengths 0, 1, 50 and 51.
GadgetNameInputs ==
  { "echo", "SysInfo", "process", "a;b", "", "a",
    "a234567890b234567890c234567890d234567890e234567-_Z",
    "a234567890b234567890c234567890d234567890e234567-_Zx" }

\* The parts of a request besides its credentials, per route: json says
\* whether the body binds (ShouldBindJSON), ok whether the work succeeds.
NoParams ==
  [ username |-> "", password |-> "", role |-> "", rule |-> <<"", "", "">>,
    gadget |-> "", json |-> TRUE, ok |-> TRUE, rid |-> "" ]

ParamInputs(route) ==
  CASE route.name = "POST /api/auth/login" ->
         { [NoParams EXCEPT !.username = cr[1], !.password = cr[2], !.rid = cr[3]] :
             cr \in { <<"admin", "admin123", "">>, <<"user", "user123", "client-rid">>,
                      <<"readonly", "readonly123", "">>, <<"admin", "user123", "">>,
                      <<"nobody", "x", "">> } }
    [] route.name = "POST /api/rbac/users/:username/roles" ->
         { [NoParams EXCEPT !.username = "user", !.role = "admin"] }
    [] route.name = "DELETE /api/rbac/users/:username/roles/:role" ->
         { [NoParams EXCEPT !.username = u, !.role = "admin"] : u \in {"user", "admin"} }
    [] route.name \in { "POST /api/rbac/roles/:role/permissions",
                        "DELETE /api/rbac/roles/:role/permissions" } ->
         { [NoParams EXCEPT !.role = r, !.rule = <<"", "ai", "access">>] :
             r \in {"user", "admin"} }
    [] route.name \in { "POST /api/rbac/permissions", "DELETE /api/rbac/permissions" } ->
         { [NoParams EXCEPT !.rule = <<"readonly", "filesystem", "write">>] }
    [] route.name = "POST /api/gadgets/:name/execute" ->
         { [NoParams EXCEPT !.gadget = g, !.json = j] :
             g \in GadgetNameInputs, j \in BOOLEAN }
    [] route.name = "GET /api/gadgets/:name/info" ->
         { [NoParams EXCEPT !.gadget = g] : g \in GadgetNameInputs }
    [] route.name = "GET /api/fs/read" ->
         { [NoParams EXCEPT !.ok = b] : b \in BOOLEAN }
    [] OTHER -> { NoParams }

\* How a request carries its token at time t: "Authorization: Bearer <tok>",
\* no Authorization header and ?token=<tok>, or another Authorization scheme
\* next to ?token=<tok>.
AuthInputs(route, t) ==
  IF route \notin ProtectedRoutes
  THEN { [scheme |-> "", headerToken |-> NoToken, queryToken |-> NoToken] }
  ELSE { [scheme |-> "Bearer", headerToken |-> tok, queryToken |-> NoToken] :
           tok \in TokenInputs(t) }
       \cup { [scheme |-> sch, headerToken |-> NoToken, queryToken |-> tok] :
                sch \in {"", "Basic"}, tok \in TokenInputs(t) }

Request(route, auth, params) ==
  [ route |-> route.name, method |-> route.method,
    scheme |-> auth.scheme, headerToken |-> auth.headerToken,
    queryToken |-> auth.queryToken,
    username |-> params.username, password |-> params.password,
    role |-> params.role, rule |-> params.rule, gadget |-> params.gadget,
    json |-> params.json,
    ok |-> params.ok, rid |-> params.rid ]

Idle == [route |-> "idle"]

\* One request through the engine: the global middleware, the route's chain,
\* and the access log entry AccessLogMiddleware writes once the chain is done.
ServeHTTP(route, req) ==
  /\ resp.route = "idle"
  /\ \E done \in { Effect(RunChain(GlobalChain \o route.chain, 1, NewContext, req, now),
                            "access_log") } :
         /\ resp' = [ route |-> route.name, req |-> req, chain |-> route.chain,
                      status |-> done.status, aborted |-> done.aborted,
                      ran |-> done.ran, effects |-> done.effects,
                      body |-> done.body, claims |-> done.claims,
                      rid |-> done.rid ]
         /\ policy' = done.policy
         /\ grouping' = done.grouping
         /\ db' = [p |-> done.policy, g |-> done.grouping, fresh |-> FALSE]
  /\ UNCHANGED <<now, mcpVars, fsVars, jcall, tr, gen, frame>>

\* The response has been delivered; the server is ready for the next request.
Respond ==
  /\ resp.route # "idle"
  /\ resp' = Idle
  /\ UNCHANGED <<policy, grouping, db, now, mcpVars, fsVars, jcall, tr, gen, frame>>

\* Time passes.
Tick ==
  /\ resp.route = "idle"
  /\ now < MaxNow
  /\ now' = now + 1
  /\ UNCHANGED <<policy, grouping, db, resp, mcpVars, fsVars, jcall, tr, gen, frame>>

\* initializeServer: seeded store, createDefaultAdmin grants admin to "admin".
HttpInit ==
  /\ policy = DefaultPermissions
  /\ grouping = { <<"admin", RoleKey("admin")>> }
  /\ db = [p |-> policy, g |-> grouping, fresh |-> FALSE]
  /\ jcall = NoJwtCall
  /\ frame = NoFrame
  /\ tr = NoTransport
  /\ gen = NoGenerator
  /\ now = 0
  /\ resp = Idle
  /\ NoSession
  /\ NewMCPManager
  /\ NewSafeFS(ServerFsConfig)

HttpNext ==
  \/ /\ resp.route = "idle"
     /\ \E route \in Routes :
          \E auth \in AuthInputs(route, now), params \in ParamInputs(route) :
            ServeHTTP(route, Request(route, auth, params))
  \/ Respond
  \/ Tick

SpecHttp == HttpInit /\ [][HttpNext]_vars

(***************************************************************************)
(* The role gates in front of a handler, over a store that changes          *)
(***************************************************************************)

\* The role lists a route can declare, and the claims the JWT middleware can
\* have left in the context: the token's role list need not be what the
\* store holds.
GateRoleLists ==
  { <<>>, <<"user">>, <<"admin">>, <<"user", "admin">>, <<"admin", "user">> }
GateClaims ==
  { GenerateToken(u, u, roles, 0) : u \in {"alice", "bob"}, roles \in {<<>>, <<"admin">>} }
    \cup { NoToken }

\* A request through router.GET(path, RequireAnyRole(roles...) or
\* RequireAllRoles(roles...), handler).
RoleGate(kind, roles, claims) ==
  /\ resp.route = "idle"
  /\ \E done \in { RunChain(<<H(kind, "", "", roles), Hfinal("RbacRead")>>, 1,
                             [NewContext EXCEPT !.claims = claims], NoParams, now) } :
       resp' = [ route |-> "gate", kind |-> kind, roles |-> roles,
                 claims |-> claims, status |-> done.status,
                 aborted |-> done.aborted, ran |-> done.ran,
                 effects |-> done.effects ]
  /\ UNCHANGED <<policy, grouping, db, now, mcpVars, fsVars, jcall, tr, gen, frame>>

GateNext ==
  \/ /\ resp.route = "idle"
     /\ \E u \in UserInputs, r \in RoleInputs : AssignRole(u, r)
  \/ /\ resp.route = "idle"
     /\ \E u \in UserInputs, r \in RoleInputs : RemoveRole(u, r)
  \/ \E kind \in {"anyrole", "allroles"}, roles \in GateRoleLists, claims \in GateClaims :
       RoleGate(kind, roles, claims)
  \/ Respond

SpecGate == HttpInit /\ [][GateNext]_vars

(***************************************************************************)
(* MCP client (unnamed/part_012) over its transport (mcp/transport.go)      *)
(***************************************************************************)

\* How many list_changed notifications the peer sends.
MaxNotifs == 1

\* The id of a frame as Receive hands it to the client.  The in-process
\* transport passes the *Message itself, so the id keeps the uint64 the
\* generator produced; stdio and socket frames go through json.Unmarshal
\* into an interface{}, which makes every JSON number a float64.
DecodeId(kind, n) == IF kind = "memory" THEN <<"uint64", n>> ELSE <<"float64", n>>

\* transport.Send succeeds: connected, and (stdio) the child still reads.
TransportSendOk == tconnected /\ ~(tkind = "stdio" /\ peerGone)

\* MCPClient.IsConnected / IsReady (both read under c.mutex.RLock).
IsConnected == connected /\ tconnected
IsReady == connected /\ initialized /\ tconnected

Returned(x, kind) ==
  [call EXCEPT ![x] = [pc |-> "returned", id |-> NoId, res |-> [kind |-> kind, id |-> NoId]]]

\* As ApiCall, but the call goes on to sendRequest whether or not the
\* session is ready.
ApiCall_NoReadyCheck(x) ==
  /\ call[x].pc = "idle"
  /\ cmutex = "free"
  /\ call' = [call EXCEPT ![x].pc = "call"]
  /\ UNCHANGED <<transportVars, idGen, pendingRequests, respChan, requestMutex,
                 cmutex, connected, initialized, ctxDone, loop, closer>>

\* ListResources / ListTools / CallTool ...: refuse unless IsReady, else
\* go on to sendRequest.
ApiCall(x) ==
  /\ call[x].pc = "idle"
  /\ cmutex = "free"
  /\ call' = IF IsReady THEN [call EXCEPT ![x].pc = "call"] ELSE Returned(x, "not_ready")
  /\ UNCHANGED <<transportVars, idGen, pendingRequests, respChan, requestMutex,
                 cmutex, connected, initialized, ctxDone, loop, closer>>

\* sendRequest, up to and including id := c.idGen.Next().
sr_begin(x) ==
  /\ call[x].pc = "call"
  /\ IF ~tconnected
     THEN /\ call' = Returned(x, "not_connected")
          /\ UNCHANGED idGen
     ELSE /\ idGen' = idGen + 1
          /\ call' = [call EXCEPT ![x].pc = "register", ![x].id = <<"uint64", idGen + 1>>]
  /\ UNCHANGED <<transportVars, pendingRequests, respChan, requestMutex,
                 cmutex, connected, initialized, ctxDone, loop, closer>>

\* respChan := make(chan *Message, 1); c.pendingRequests[id] = respChan.
sr_register(x) ==
  /\ call[x].pc = "register"
  /\ requestMutex = "free"
  /\ pendingRequests' = pendingRequests \cup { <<call[x].id, x>> }
  /\ respChan' = [respChan EXCEPT ![x] = NewChan]
  /\ call' = [call EXCEPT ![x].pc = "send"]
  /\ UNCHANGED <<transportVars, idGen, requestMutex, cmutex, connected,
                 initialized, ctxDone, loop, closer>>

\* c.transport.Send(request).
sr_send(x) ==
  /\ call[x].pc = "send"
  /\ IF TransportSendOk
     THEN /\ outgoing' = outgoing \cup { call[x].id[2] }
          /\ call' = [call EXCEPT ![x].pc = "wait"]
     ELSE /\ call' = [call EXCEPT ![x].pc = "defer",
                                  ![x].res = [kind |-> "send_failed", id |-> NoId]]
          /\ UNCHANGED outgoing
  /\ UNCHANGED <<tkind, tconnected, peerGone, incoming, notifs, idGen,
                 pendingRequests, respChan, requestMutex, cmutex, connected,
                 initialized, ctxDone, loop, closer>>

\* select case response := <-respChan: a buffered message, or nil from a
\* channel that was closed.
sr_recv(x) ==
  /\ call[x].pc = "wait"
  /\ Len(respChan[x].buf) > 0 \/ respChan[x].closed
  /\ IF Len(respChan[x].buf) > 0
     THEN /\ call' = [call EXCEPT ![x].pc = "defer",
                                  ![x].res = [kind |-> "response", id |-> respChan[x].buf[1].id]]
          /\ respChan' = [respChan EXCEPT ![x].buf = <<>>]
     ELSE /\ call' = [call EXCEPT ![x].pc = "defer",
                                  ![x].res = [kind |-> "nil", id |-> NoId]]
          /\ UNCHANGED respChan
  /\ UNCHANGED <<transportVars, idGen, pendingRequests, requestMutex, cmutex,
                 connected, initialized, ctxDone, loop, closer>>

\* select case <-ctx.Done(): the caller's context; the receive loop passes
\* c.ctx, which only Close cancels.
sr_ctx(x) ==
  /\ call[x].pc = "wait"
  /\ x = "loop" => ctxDone
  /\ call' = [call EXCEPT ![x].pc = "defer",
                          ![x].res = [kind |-> "cancelled", id |-> NoId]]
  /\ UNCHANGED <<transportVars, idGen, pendingRequests, respChan, requestMutex,
                 cmutex, connected, initialized, ctxDone, loop, closer>>

\* select case <-time.After(30 * time.Second).
sr_timeout(x) ==
  /\ call[x].pc = "wait"
  /\ call' = [call EXCEPT ![x].pc = "defer",
                          ![x].res = [kind |-> "timeout", id |-> NoId]]
  /\ UNCHANGED <<transportVars, idGen, pendingRequests, respChan, requestMutex,
                 cmutex, connected, initialized, ctxDone, loop, closer>>

\* The deferred cleanup: Lock; delete(pendingRequests, id); close(respChan);
\* Unlock.  Closing a channel that is already closed panics, and the Unlock
\* after it never runs.
sr_defer(x) ==
  /\ call[x].pc = "defer"
  /\ requestMutex = "free"
  /\ pendingRequests' = pendingRequests \ { <<call[x].id, x>> }
  /\ IF respChan[x].closed
     THEN /\ call' = [call EXCEPT ![x].pc = "panicked"]
          /\ requestMutex' = "stuck"
          /\ UNCHANGED respChan
     ELSE /\ call' = [call EXCEPT ![x].pc = "returned"]
          /\ respChan' = [respChan EXCEPT ![x].closed = TRUE]
          /\ UNCHANGED requestMutex
  /\ UNCHANGED <<transportVars, idGen, cmutex, connected, initialized, ctxDone,
                 loop, closer>>

\* MCPClient.Connect, first half: under c.mutex, start handleMessages and
\* enter initialize's sendRequest.
ConnectBegin ==
  /\ call["conn"].pc = "idle"
  /\ cmutex = "free"
  /\ IF ~tconnected
     THEN /\ call' = [call EXCEPT !["conn"].pc = "failed",
                                  !["conn"].res = [kind |-> "not_connected", id |-> NoId]]
          /\ UNCHANGED <<cmutex, loop>>
     ELSE /\ cmutex' = "conn"
          /\ loop' = [loop EXCEPT !.pc = "top"]
          /\ call' = [call EXCEPT !["conn"].pc = "call"]
  /\ UNCHANGED <<transportVars, idGen, pendingRequests, respChan, requestMutex,
                 connected, initialized, ctxDone, closer>>

\* What the peer put into its answer to initialize: a result carrying the
\* client's protocol version, or anything initialize refuses (an error
\* object, a result that does not parse, another protocol version).
InitializeAnswers == { "match", "refused" }

\* MCPClient.Connect, second half: initialize has its answer.  On a response
\* carrying the matching protocol version initialized is set and the
\* initialized notification is sent; connected is set when that Send
\* succeeded.  Every other answer makes Connect return an error.
ConnectEnd ==
  /\ call["conn"].pc = "returned"
  /\ cmutex = "conn"
  /\ cmutex' = "free"
  /\ IF call["conn"].res.kind = "response"
     THEN \E answer \in InitializeAnswers :
            IF answer = "match"
            THEN /\ initialized' = TRUE
                 /\ connected' = TransportSendOk
                 /\ call' = [call EXCEPT !["conn"].pc =
                                           IF TransportSendOk THEN "done" ELSE "failed"]
            ELSE /\ call' = [call EXCEPT !["conn"].pc = "failed",
                                         !["conn"].res.kind = "refused"]
                 /\ UNCHANGED <<initialized, connected>>
     ELSE /\ call' = [call EXCEPT !["conn"].pc = "failed"]
          /\ UNCHANGED <<initialized, connected>>
  /\ UNCHANGED <<transportVars, idGen, pendingRequests, respChan, requestMutex,
                 ctxDone, loop, closer>>

\* What the owner of the client does with a Connect error (ConnectServer):
\* transport.Close(), which also ends a stdio child.
OwnerClosesTransport ==
  /\ call["conn"].pc = "failed"
  /\ tconnected
  /\ tconnected' = FALSE
  /\ peerGone' = (peerGone \/ tkind = "stdio")
  /\ UNCHANGED <<tkind, outgoing, incoming, notifs, clientVars>>

\* MCPClient.Close: c.mutex.Lock(); nothing to do unless connected; else
\* c.cancel().
CloseBegin ==
  /\ closer = "idle"
  /\ cmutex = "free"
  /\ IF ~connected
     THEN /\ closer' = "done"
          /\ UNCHANGED <<cmutex, ctxDone>>
     ELSE /\ cmutex' = "closer"
          /\ ctxDone' = TRUE
          /\ closer' = "cancelled"
  /\ UNCHANGED <<transportVars, idGen, pendingRequests, respChan, requestMutex,
                 connected, initialized, call, loop>>

\* MCPClient.Close: c.transport.Close().
CloseTransport ==
  /\ closer = "cancelled"
  /\ tconnected' = FALSE
  /\ peerGone' = (peerGone \/ tkind = "stdio")
  /\ closer' = "transport_closed"
  /\ UNCHANGED <<tkind, outgoing, incoming, notifs, idGen, pendingRequests,
                 respChan, requestMutex, cmutex, connected, initialized,
                 ctxDone, call, loop>>

\* MCPClient.Close: close every pending channel, replace the table, clear
\* the flags, release c.mutex.
CloseFinish ==
  /\ closer = "transport_closed"
  /\ requestMutex = "free"
  /\ respChan' = [x \in Callers |->
                    IF \E e \in pendingRequests : e[2] = x
                    THEN [respChan[x] EXCEPT !.closed = TRUE]
                    ELSE respChan[x]]
  /\ pendingRequests' = {}
  /\ connected' = FALSE
  /\ initialized' = FALSE
  /\ cmutex' = "free"
  /\ closer' = "done"
  /\ UNCHANGED <<transportVars, idGen, requestMutex, ctxDone, call, loop>>

\* handleMessages: select { case <-c.ctx.Done(): return; default: ... }.
LoopTop ==
  /\ loop.pc = "top"
  /\ loop' = [loop EXCEPT !.pc = IF ctxDone THEN "exited" ELSE "recv"]
  /\ UNCHANGED <<transportVars, idGen, pendingRequests, respChan, requestMutex,
                 cmutex, connected, initialized, ctxDone, call, closer>>

\* handleMessages: c.transport.Receive(), ValidateMessage, processMessage's
\* dispatch.  An error means `continue`.  The stdio read blocks while the
\* child lives and has written nothing; the in-process Receive never blocks.
LoopReceive ==
  /\ loop.pc = "recv"
  /\ IF tconnected /\ incoming # <<>>
     THEN /\ loop' = [loop EXCEPT
                        !.pc = IF Head(incoming).type = "response"
                               THEN "handleResponse" ELSE "handleNotification",
                        !.msg = [type |-> Head(incoming).type,
                                 id |-> IF Head(incoming).type = "response"
                                        THEN DecodeId(tkind, Head(incoming).id)
                                        ELSE NoId]]
          /\ incoming' = Tail(incoming)
     ELSE /\ ~tconnected \/ tkind = "memory" \/ peerGone
          /\ loop' = [loop EXCEPT !.pc = "top"]
          /\ UNCHANGED incoming
  /\ UNCHANGED <<tkind, tconnected, peerGone, outgoing, notifs, idGen,
                 pendingRequests, respChan, requestMutex, cmutex, connected,
                 initialized, ctxDone, call, closer>>

\* handleResponse, the lookup: respChan, exists := c.pendingRequests[message.ID]
\* under requestMutex.RLock.  Keys are compared as Go compares interface
\* values: dynamic type and value.
LoopLookup ==
  /\ loop.pc = "handleResponse"
  /\ requestMutex = "free"
  /\ loop' = [loop EXCEPT
                !.pc = "deliver",
                !.target = IF \E e \in pendingRequests : e[1] = loop.msg.id
                           THEN (CHOOSE e \in pendingRequests : e[1] = loop.msg.id)[2]
                           ELSE "none"]
  /\ UNCHANGED <<transportVars, idGen, pendingRequests, respChan, requestMutex,
                 cmutex, connected, initialized, ctxDone, call, closer>>

\* handleResponse, the non-blocking send on the channel it looked up.  A
\* send on a closed channel panics in the loop's goroutine.
LoopDeliver ==
  /\ loop.pc = "deliver"
  /\ IF loop.target = "none"
     THEN /\ loop' = [loop EXCEPT !.pc = "top"]
          /\ UNCHANGED respChan
     ELSE IF respChan[loop.target].closed
     THEN /\ loop' = [loop EXCEPT !.pc = "panicked"]
          /\ UNCHANGED respChan
     ELSE /\ loop' = [loop EXCEPT !.pc = "top", !.target = "none"]
          /\ respChan' = IF Len(respChan[loop.target].buf) = 0
                         THEN [respChan EXCEPT ![loop.target].buf = <<loop.msg>>]
                         ELSE respChan
  /\ UNCHANGED <<transportVars, idGen, pendingRequests, requestMutex, cmutex,
                 connected, initialized, ctxDone, call, closer>>

\* handleNotification for a list_changed method with its change handler
\* registered: c.ListResources(c.ctx) (or ListTools / ListPrompts) is called
\* from the loop's own goroutine.
LoopNotify ==
  /\ loop.pc = "handleNotification"
  /\ cmutex = "free"
  /\ IF IsReady
     THEN /\ loop' = [loop EXCEPT !.pc = "refetch"]
          /\ call' = [call EXCEPT !["loop"] = [NoCall EXCEPT !.pc = "call"]]
     ELSE /\ loop' = [loop EXCEPT !.pc = "top"]
          /\ UNCHANGED call
  /\ UNCHANGED <<transportVars, idGen, pendingRequests, respChan, requestMutex,
                 cmutex, connected, initialized, ctxDone, closer>>

\* The re-fetch is over: back to the top of the loop; a panic in it unwinds
\* the loop's goroutine.
LoopRefetchDone ==
  /\ loop.pc = "refetch"
  /\ call["loop"].pc \in {"returned", "panicked"}
  /\ loop' = [loop EXCEPT !.pc = IF call["loop"].pc = "returned" THEN "top" ELSE "panicked"]
  /\ UNCHANGED <<transportVars, idGen, pendingRequests, respChan, requestMutex,
                 cmutex, connected, initialized, ctxDone, call, closer>>

\* The peer answers one of the requests it has read, echoing its id.
PeerRespond(n) ==
  /\ n \in outgoing
  /\ tconnected /\ ~peerGone
  /\ outgoing' = outgoing \ {n}
  /\ incoming' = Append(incoming, [type |-> "response", id |-> n])
  /\ UNCHANGED <<tkind, tconnected, peerGone, notifs, clientVars>>

\* The peer announces that one of its lists changed.
PeerNotify ==
  /\ notifs < MaxNotifs
  /\ tconnected /\ ~peerGone
  /\ notifs' = notifs + 1
  /\ incoming' = Append(incoming, [type |-> "notification", id |-> 0])
  /\ UNCHANGED <<tkind, tconnected, peerGone, outgoing, clientVars>>

\* The transport dies under the client: the stdio child exits; the owner of
\* an in-process transport closes it.
TransportDies ==
  /\ tconnected /\ ~peerGone
  /\ IF tkind = "stdio"
     THEN peerGone' = TRUE /\ UNCHANGED tconnected
     ELSE tconnected' = FALSE /\ UNCHANGED peerGone
  /\ UNCHANGED <<tkind, outgoing, incoming, notifs, clientVars>>

\* StdioTransport.Connect's monitor goroutine: cmd.Wait() returned, so
\* connected = false.
StdioMonitor ==
  /\ tkind = "stdio"
  /\ peerGone /\ tconnected
  /\ tconnected' = FALSE
  /\ UNCHANGED <<tkind, peerGone, outgoing, incoming, notifs, clientVars>>

ClientInit ==
  /\ policy = DefaultPermissions
  /\ grouping = {}
  /\ db = [p |-> policy, g |-> grouping, fresh |-> TRUE]
  /\ jcall = NoJwtCall
  /\ frame = NoFrame
  /\ tr = NoTransport
  /\ gen = NoGenerator
  /\ now = 0
  /\ resp = Idle
  /\ \E kind \in {"stdio", "memory"} : NewMCPClient(kind)
  /\ NewMCPManager
  /\ NewSafeFS(ServerFsConfig)

ClientNext ==
  \/ \E x \in ApiCallers : ApiCall(x) /\ UNCHANGED serverVars
  \/ \E x \in Callers : sr_begin(x) /\ UNCHANGED serverVars
  \/ \E x \in Callers : sr_register(x) /\ UNCHANGED serverVars
  \/ \E x \in Callers : sr_send(x) /\ UNCHANGED serverVars
  \/ \E x \in Callers : sr_recv(x) /\ UNCHANGED serverVars
  \/ \E x \in CancellableCallers : sr_ctx(x) /\ UNCHANGED serverVars
  \/ \E x \in Callers : sr_timeout(x) /\ UNCHANGED serverVars
  \/ \E x \in Callers : sr_defer(x) /\ UNCHANGED serverVars
  \/ ConnectBegin /\ UNCHANGED serverVars
  \/ ConnectEnd /\ UNCHANGED serverVars
  \/ OwnerClosesTransport /\ UNCHANGED serverVars
  \/ CloseBegin /\ UNCHANGED serverVars
  \/ CloseTransport /\ UNCHANGED serverVars
  \/ CloseFinish /\ UNCHANGED serverVars
  \/ LoopTop /\ UNCHANGED serverVars
  \/ LoopReceive /\ UNCHANGED serverVars
  \/ LoopLookup /\ UNCHANGED serverVars
  \/ LoopDeliver /\ UNCHANGED serverVars
  \/ LoopNotify /\ UNCHANGED serverVars
  \/ LoopRefetchDone /\ UNCHANGED serverVars
  \/ \E n \in outgoing : PeerRespond(n) /\ UNCHANGED serverVars
  \/ PeerNotify /\ UNCHANGED serverVars
  \/ TransportDies /\ UNCHANGED serverVars
  \/ StdioMonitor /\ UNCHANGED serverVars

SpecClient == ClientInit /\ [][ClientNext]_vars

\* The session with one API caller beside Connect and the receive loop.
ReadyNext ==
  \/ ApiCall("c1") /\ UNCHANGED serverVars
  \/ \E x \in {"conn", "loop", "c1"} : sr_begin(x) /\ UNCHANGED serverVars
  \/ \E x \in {"conn", "loop", "c1"} : sr_register(x) /\ UNCHANGED serverVars
  \/ \E x \in {"conn", "loop", "c1"} : sr_send(x) /\ UNCHANGED serverVars
  \/ \E x \in {"conn", "loop", "c1"} : sr_recv(x) /\ UNCHANGED serverVars
  \/ sr_ctx("loop") /\ UNCHANGED serverVars
  \/ \E x \in {"conn", "loop", "c1"} : sr_timeout(x) /\ UNCHANGED serverVars
  \/ \E x \in {"conn", "loop", "c1"} : sr_defer(x) /\ UNCHANGED serverVars
  \/ ConnectBegin /\ UNCHANGED serverVars
  \/ ConnectEnd /\ UNCHANGED serverVars
  \/ OwnerClosesTransport /\ UNCHANGED serverVars
  \/ CloseBegin /\ UNCHANGED serverVars
  \/ CloseTransport /\ UNCHANGED serverVars
  \/ CloseFinish /\ UNCHANGED serverVars
  \/ LoopTop /\ UNCHANGED serverVars
  \/ LoopReceive /\ UNCHANGED serverVars
  \/ LoopLookup /\ UNCHANGED serverVars
  \/ LoopDeliver /\ UNCHANGED serverVars
  \/ LoopNotify /\ UNCHANGED serverVars
  \/ LoopRefetchDone /\ UNCHANGED serverVars
  \/ \E n \in outgoing : PeerRespond(n) /\ UNCHANGED serverVars
  \/ PeerNotify /\ UNCHANGED serverVars
  \/ TransportDies /\ UNCHANGED serverVars
  \/ StdioMonitor /\ UNCHANGED serverVars

SpecReady == ClientInit /\ [][ReadyNext]_vars

(***************************************************************************)
(* MCP manager: ConnectServer, DisconnectServer and the health monitor      *)
(***************************************************************************)

\* ConnectServer calls that get as far as creating a transport.
MaxAttempts == 3

\* A transport with the client built over it: what ConnectServer creates.
\* tstate is the transport's connected flag ("unconnected" before
\* transport.Connect succeeded, "closed" after Close or the child's exit).
\* loop is the client's handleMessages goroutine: "none" before Connect
\* started it, "running" while c.ctx is live, "cancelled" once c.cancel() was
\* called and "exited" when the goroutine has returned.
NewObj(name, tstate, conn, init) ==
  [name |-> name, tstate |-> tstate, connected |-> conn, initialized |-> init,
   loop |-> "none"]

\* MCPClient.Connect past its two checks: go c.handleMessages().
StartLoop(o) == [o EXCEPT !.loop = "running"]

\* The client ConnectServer is left with when client.Connect returned the
\* error hs and transport.Close() was called: Connect starts the loop before
\* initialize, and nothing on this path cancels c.ctx.
FailedClient(name, hs) ==
  IF hs = "transport_not_connected"
    THEN NewObj(name, "closed", FALSE, FALSE)
    ELSE StartLoop(NewObj(name, "closed", FALSE, hs = "notify_failed"))

\* MCPClient.Close on a connected client: c.cancel(), the transport closed,
\* connected and initialized cleared.
ClientClose(o) ==
  [NewObj(o.name, "closed", FALSE, FALSE) EXCEPT
     !.loop = IF o.loop = "running" THEN "cancelled" ELSE o.loop]

\* MCPClient.IsConnected and IsReady of the session object g.
SessionIsConnected(ob, g) == ob[g].connected /\ ob[g].tstate = "connected"
SessionIsReady(ob, g) ==
  ob[g].connected /\ ob[g].initialized /\ ob[g].tstate = "connected"

\* The return paths of client.Connect as ConnectServer sees them: nil, the
\* transport found dead, initialize failed (send error, timeout, context
\* cancelled, error response, unparsable result, protocol-version mismatch),
\* or the initialized notification could not be sent.  Which of them a
\* given peer and transport can bring about is decided by the client model
\* above; the manager is examined for every result client.Connect can
\* return.
ConnectResults == { "ok", "transport_not_connected", "init_failed", "notify_failed" }
DialResults == { "ok", "fail" }

\* As ConnectOutcome, but the client is stored in the map before
\* client.Connect is called.
ConnectOutcome_InstallsBeforeConnect(cl, ob, name, hs) ==
  [ err |-> IF hs = "ok" THEN "nil" ELSE hs,
    clients |-> [cl EXCEPT ![name] = Len(ob) + 1],
    objs |-> Append(ob, IF hs = "ok"
                          THEN StartLoop(NewObj(name, "connected", TRUE, TRUE))
                          ELSE FailedClient(name, hs)) ]

\* ConnectServer from client.Connect on: the transport is connected and the
\* client has been built over it.  On an error the transport is closed and
\* the map is not written; on success the client is stored.
ConnectOutcome(cl, ob, name, hs) ==
  IF hs = "ok"
    THEN [ err |-> "nil",
           clients |-> [cl EXCEPT ![name] = Len(ob) + 1],
           objs |-> Append(ob, StartLoop(NewObj(name, "connected", TRUE, TRUE))) ]
    ELSE [ err |-> hs,
           clients |-> cl,
           objs |-> Append(ob, FailedClient(name, hs)) ]

\* ConnectServer(name): the error it returns and the map and objects it
\* leaves, for a given result of transport.Connect and of client.Connect.
ConnectServerResult(cl, ob, name, dial, hs) ==
  IF name \notin ConfiguredServers
    THEN [err |-> "not_configured", clients |-> cl, objs |-> ob]
  ELSE IF ~ServerConfigs[name].Enabled
    THEN [err |-> "disabled", clients |-> cl, objs |-> ob]
  ELSE IF cl[name] # NoClient /\ SessionIsConnected(ob, cl[name])
    THEN [err |-> "already_connected", clients |-> cl, objs |-> ob]
  ELSE IF ServerConfigs[name].Transport \notin TransportTypes
    THEN [err |-> "create_transport_failed", clients |-> cl, objs |-> ob]
  ELSE IF dial = "fail"
    THEN [ err |-> "transport_connect_failed", clients |-> cl,
           objs |-> Append(ob, NewObj(name, "unconnected", FALSE, FALSE)) ]
  ELSE ConnectOutcome(cl, ob, name, hs)

\* One call of ConnectServer, made through the API or by the health monitor.
DoConnectServer(name, by) ==
  /\ Len(objs) < MaxAttempts
  /\ \E dial \in DialResults, hs \in ConnectResults :
       \E r \in { ConnectServerResult(clients, objs, name, dial, hs) } :
         /\ clients' = r.clients
         /\ objs' = r.objs
         /\ last' = [op |-> "ConnectServer", by |-> by, name |-> name, err |-> r.err]

ConnectServer(name) ==
  /\ DoConnectServer(name, "api")
  /\ UNCHANGED hc

\* DisconnectServer(name): Close the session and delete its entry.
DisconnectServer(name) ==
  /\ IF clients[name] = NoClient
       THEN /\ last' = [op |-> "DisconnectServer", by |-> "api", name |-> name,
                        err |-> "not_connected"]
            /\ UNCHANGED <<clients, objs>>
       ELSE /\ objs' = [objs EXCEPT ![clients[name]] = ClientClose(@)]
            /\ clients' = [clients EXCEPT ![name] = NoClient]
            /\ last' = [op |-> "DisconnectServer", by |-> "api", name |-> name,
                        err |-> "nil"]
  /\ UNCHANGED hc

\* The child process of a stdio transport exits: the monitor goroutine clears
\* the transport's connected flag.
ChildExits(g) ==
  /\ objs[g].tstate = "connected"
  /\ objs' = [objs EXCEPT ![g].tstate = "closed"]
  /\ last' = [op |-> "ChildExits", by |-> "env", name |-> objs[g].name, err |-> "nil"]
  /\ UNCHANGED <<clients, hc>>

\* performHealthCheck, first part: copy the map under the read lock.
HealthTick ==
  /\ hc.pc = "idle"
  /\ hc' = [ pc |-> IF \E n \in ServerNames : clients[n] # NoClient
                      THEN "scan" ELSE "idle",
             snap |-> clients,
             todo |-> { n \in ServerNames : clients[n] # NoClient } ]
  /\ last' = [op |-> "HealthTick", by |-> "env", name |-> "", err |-> "nil"]
  /\ UNCHANGED <<clients, objs>>

\* As ShouldReconnect, but the descriptor's auto_start is not consulted.
ShouldReconnect_IgnoresAutoStart(ob, g, name) ==
  ~SessionIsConnected(ob, g)

\* performHealthCheck's test on one session of the snapshot.
ShouldReconnect(ob, g, name) ==
  /\ ~SessionIsConnected(ob, g)
  /\ name \in ConfiguredServers
  /\ ServerConfigs[name].AutoStart

\* performHealthCheck, one iteration of its loop over the snapshot.
HealthVisit(name) ==
  /\ hc.pc = "scan"
  /\ name \in hc.todo
  /\ IF ShouldReconnect(objs, hc.snap[name], name)
       THEN DoConnectServer(name, "health")
       ELSE /\ last' = [op |-> "HealthSkip", by |-> "health", name |-> name,
                        err |-> "nil"]
            /\ UNCHANGED <<clients, objs>>
  /\ hc' = [hc EXCEPT !.todo = @ \ {name},
                      !.pc = IF hc.todo = {name} THEN "idle" ELSE "scan"]

MgrInit ==
  /\ policy = DefaultPermissions
  /\ grouping = {}
  /\ db = [p |-> policy, g |-> grouping, fresh |-> TRUE]
  /\ jcall = NoJwtCall
  /\ frame = NoFrame
  /\ tr = NoTransport
  /\ gen = NoGenerator
  /\ now = 0
  /\ resp = Idle
  /\ NoSession
  /\ NewMCPManager
  /\ NewSafeFS(ServerFsConfig)

managedVars == <<policy, grouping, db, now, resp, transportVars, clientVars, fsVars, jcall, tr, gen, frame, mstop>>

MgrNext ==
  \/ \E name \in ServerNames : ConnectServer(name) /\ UNCHANGED managedVars
  \/ \E name \in ServerNames : DisconnectServer(name) /\ UNCHANGED managedVars
  \/ \E g \in 1..Len(objs) : ChildExits(g) /\ UNCHANGED managedVars
  \/ HealthTick /\ UNCHANGED managedVars
  \/ \E name \in ServerNames : HealthVisit(name) /\ UNCHANGED managedVars

SpecMgr == MgrInit /\ [][MgrNext]_vars

\* handleMessages of the client object g: case <-c.ctx.Done(): return.
HandleMessagesReturns(g) ==
  /\ objs[g].loop = "cancelled"
  /\ objs' = [objs EXCEPT ![g].loop = "exited"]
  /\ last' = [op |-> "handleMessages", by |-> "loop", name |-> objs[g].name,
              err |-> "nil"]
  /\ UNCHANGED <<clients, hc>>

\* The manager with the receive loops of the clients it created.
LoopsNext ==
  \/ \E name \in ServerNames : ConnectServer(name) /\ UNCHANGED managedVars
  \/ \E name \in ServerNames : DisconnectServer(name) /\ UNCHANGED managedVars
  \/ \E g \in 1..Len(objs) : ChildExits(g) /\ UNCHANGED managedVars
  \/ HealthTick /\ UNCHANGED managedVars
  \/ \E name \in ServerNames : HealthVisit(name) /\ UNCHANGED managedVars
  \/ \E g \in 1..Len(objs) : HandleMessagesReturns(g) /\ UNCHANGED managedVars

SpecLoops == MgrInit /\ [][LoopsNext]_vars

(***************************************************************************)
(* MCP manager: Stop beside the other operations                            *)
(***************************************************************************)

\* m.mutex is held by the goroutine in Stop.
StopHoldsMutex == mstop.pc \in { "range", "relock" }

\* Stop up to the lock: the ticker is stopped and healthStop closed (Start
\* has set the ticker).
StopBegin ==
  /\ mstop.pc = "idle"
  /\ mstop' = [mstop EXCEPT !.pc = "lock", !.healthStop = "closed"]
  /\ last' = [op |-> "Stop", by |-> "api", name |-> "", err |-> "running"]
  /\ UNCHANGED <<clients, objs, hc>>

\* m.mutex.Lock() in Stop, and the start of the range over m.clients.
StopLock ==
  /\ mstop.pc = "lock"
  /\ mstop' = [mstop EXCEPT !.pc = "range",
                            !.todo = { n \in ServerNames : clients[n] # NoClient }]
  /\ UNCHANGED <<clients, objs, hc, last>>

\* One iteration of the range: m.DisconnectServer(serverName), whose first
\* statement is m.mutex.Lock(); the mutex is held by this goroutine and a
\* sync.RWMutex is not reentrant, so the call waits for itself.
StopVisit(name) ==
  /\ mstop.pc = "range"
  /\ name \in mstop.todo
  /\ mstop' = [mstop EXCEPT !.pc = "relock"]
  /\ UNCHANGED <<clients, objs, hc, last>>

\* The range is over: the deferred unlock, return nil.
StopReturn ==
  /\ mstop.pc = "range"
  /\ mstop.todo = {}
  /\ mstop' = [mstop EXCEPT !.pc = "returned"]
  /\ last' = [op |-> "Stop", by |-> "api", name |-> "", err |-> "nil"]
  /\ UNCHANGED <<clients, objs, hc>>

\* Every variable but those of the manager.
stopOtherVars == <<policy, grouping, db, now, resp, transportVars, clientVars, fsVars, jcall, tr, gen, frame>>

\* The manager's operations while Stop may run: those that take m.mutex
\* wait while Stop holds it, and the health monitor takes no new tick once
\* healthStop is closed.
StopNext ==
  \/ /\ ~StopHoldsMutex
     /\ \E name \in ServerNames : ConnectServer(name)
     /\ UNCHANGED managedVars
  \/ /\ ~StopHoldsMutex
     /\ \E name \in ServerNames : DisconnectServer(name)
     /\ UNCHANGED managedVars
  \/ \E g \in 1..Len(objs) : ChildExits(g) /\ UNCHANGED managedVars
  \/ /\ ~StopHoldsMutex
     /\ mstop.healthStop = "open"
     /\ HealthTick
     /\ UNCHANGED managedVars
  \/ /\ \E name \in ServerNames :
          /\ hc.pc = "scan"
          /\ name \in hc.todo
          /\ ~StopHoldsMutex \/ ~ShouldReconnect(objs, hc.snap[name], name)
          /\ HealthVisit(name)
     /\ UNCHANGED managedVars
  \/ StopBegin /\ UNCHANGED stopOtherVars
  \/ StopLock /\ UNCHANGED stopOtherVars
  \/ \E name \in ServerNames : StopVisit(name) /\ UNCHANGED stopOtherVars
  \/ StopReturn /\ UNCHANGED stopOtherVars

SpecStop == MgrInit /\ [][StopNext]_vars

(***************************************************************************)
(* Sandboxed file system operations (o-llama/internal/safefs)               *)
(***************************************************************************)

\* A path is the string split at '/': abs says it begins with '/'.
\* PathString is the string itself, as strings.Contains and
\* strings.HasPrefix see it (Clean's "." and "/" for no elements).
PathString(p) ==
  LET join[i \in 0..Len(p.segs)] ==
        IF i = 0 THEN ""
        ELSE IF i = 1 THEN p.segs[1]
        ELSE join[i - 1] \o "/" \o p.segs[i]
  IN  IF p.segs = <<>> THEN (IF p.abs THEN "/" ELSE ".")
      ELSE (IF p.abs THEN "/" ELSE "") \o join[Len(p.segs)]

HasPrefix(s, prefix) ==
  Len(prefix) <= Len(s) /\ SubSeq(s, 1, Len(prefix)) = prefix
Contains(s, substr) ==
  \E i \in 1..(Len(s) - Len(substr) + 1) : SubSeq(s, i, i + Len(substr) - 1) = substr

\* filepath.Clean: drops empty and "." elements and resolves each ".."
\* against the element before it; a ".." at the root is dropped, a leading
\* ".." of a relative path stays.
Clean(p) ==
  LET out[i \in 0..Len(p.segs)] ==
        IF i = 0 THEN <<>>
        ELSE LET o == out[i - 1]
                 s == p.segs[i]
             IN  IF s \in {"", "."} THEN o
                 ELSE IF s # ".." THEN Append(o, s)
                 ELSE IF Len(o) > 0 /\ o[Len(o)] # ".."
                        THEN SubSeq(o, 1, Len(o) - 1)
                 ELSE IF p.abs THEN o
                 ELSE Append(o, "..")
  IN  [abs |-> p.abs, segs |-> out[Len(p.segs)]]

\* The working directory of the process.
Cwd == << "base" >>

\* filepath.Abs: Clean of the path, joined to the working directory when it
\* is relative.
Abs(p) ==
  IF p.abs THEN Clean(p) ELSE Clean([abs |-> TRUE, segs |-> Cwd \o p.segs])

\* filepath.Rel of two cleaned absolute paths: one ".." for every element of
\* base below the common prefix, then the rest of target.
Rel(base, target) ==
  LET common[i \in 0..Len(base.segs)] ==
        IF i = 0 THEN 0
        ELSE IF common[i - 1] = i - 1 /\ i <= Len(target.segs)
                /\ base.segs[i] = target.segs[i]
             THEN i ELSE common[i - 1]
      k == common[Len(base.segs)]
  IN  [abs |-> FALSE,
       segs |-> [i \in 1..(Len(base.segs) - k) |-> ".."]
                  \o SubSeq(target.segs, k + 1, Len(target.segs))]

\* The elements the paths of callers are built from, and their length.
Segments == { "base", "secret", "secret2", "b.txt", "x..y", "etc", ".." }
MaxPathLen == 3
PathInputs ==
  [abs : BOOLEAN, segs : UNION { [1..k -> Segments] : k \in 0..MaxPathLen }]
\* The paths CopyFile is called with.
CopyInputs == { p \in PathInputs : Len(p.segs) <= 2 }

\* As validatePathForDirectory, but only an element that is ".." counts as
\* traversal.
validatePathForDirectory_DotDotElements(fs, path) ==
  LET cleanPath == Clean(path)
      absPath == Abs(cleanPath)
  IN  IF \E i \in 1..Len(cleanPath.segs) : cleanPath.segs[i] = ".."
        THEN "ErrPathTraversal"
      ELSE IF ~\E i \in 1..Len(fs.basePaths) :
                 ~HasPrefix(PathString(Rel(Abs(fs.basePaths[i]), absPath)), "..")
        THEN "ErrPathOutsideBase"
      ELSE IF \E i \in 1..Len(fs.deniedPaths) :
                HasPrefix(PathString(absPath), PathString(Abs(fs.deniedPaths[i])))
        THEN "ErrPathDenied"
      ELSE "nil"

\* As validatePathForDirectory, but a path counts as under a base root when
\* the base root's string is a prefix of it.
validatePathForDirectory_PrefixBase(fs, path) ==
  LET cleanPath == Clean(path)
      absPath == Abs(cleanPath)
  IN  IF Contains(PathString(cleanPath), "..") THEN "ErrPathTraversal"
      ELSE IF ~\E i \in 1..Len(fs.basePaths) :
                 HasPrefix(PathString(absPath), PathString(Abs(fs.basePaths[i])))
        THEN "ErrPathOutsideBase"
      ELSE IF \E i \in 1..Len(fs.deniedPaths) :
                HasPrefix(PathString(absPath), PathString(Abs(fs.deniedPaths[i])))
        THEN "ErrPathDenied"
      ELSE "nil"

\* SafeFS.validatePathForDirectory: the error it returns.
validatePathForDirectory(fs, path) ==
  LET cleanPath == Clean(path)
      absPath == Abs(cleanPath)
  IN  IF Contains(PathString(cleanPath), "..") THEN "ErrPathTraversal"
      ELSE IF ~\E i \in 1..Len(fs.basePaths) :
                 ~HasPrefix(PathString(Rel(Abs(fs.basePaths[i]), absPath)), "..")
        THEN "ErrPathOutsideBase"
      ELSE IF \E i \in 1..Len(fs.deniedPaths) :
                HasPrefix(PathString(absPath), PathString(Abs(fs.deniedPaths[i])))
        THEN "ErrPathDenied"
      ELSE "nil"

\* SafeFS.ValidatePath: the same three checks, statement for statement, and
\* then the extension allow-list (filepath.Ext: from the last '.' of the
\* last element).
ValidatePath(fs, path) ==
  LET err == validatePathForDirectory(fs, path)
      s == PathString(Abs(Clean(path)))
      dots == { i \in 1..Len(s) : SubSeq(s, i, i) = "."
                                   /\ ~Contains(SubSeq(s, i, Len(s)), "/") }
      ext == IF dots = {} THEN ""
             ELSE SubSeq(s, CHOOSE i \in dots : \A j \in dots : j <= i, Len(s))
  IN  IF err # "nil" THEN err
      ELSE IF fs.allowedExts # {} /\ FoldString(ext) \notin fs.allowedExts
        THEN "ErrExtNotAllowed"
      ELSE "nil"

\* SafeFS.auditLog: one record to the sink, if there is a sink.
auditLog(operation, success, details) ==
  audit' = IF fscfg.auditLogger
           THEN Append(audit, [operation |-> operation, success |-> success,
                               details |-> details])
           ELSE audit

\* A caller asks for the verdict on a path.
Validate(path, forDirectory) ==
  /\ fscall.op = "idle"
  /\ fscall' = [NoFsCall EXCEPT
                  !.op = IF forDirectory THEN "validatePathForDirectory"
                         ELSE "ValidatePath",
                  !.path = path,
                  !.err = IF forDirectory THEN validatePathForDirectory(fscfg, path)
                          ELSE ValidatePath(fscfg, path)]
  /\ UNCHANGED <<fscfg, audit>>

\* What the operating system may answer to a call.
OsOutcomes == { "ok", "fail" }
FileSizes == 0..(SizeCap + 1)

\* SafeFS.ReadFile. os: the calls made to the operating system, in order.
ReadFile(path) ==
  LET R(n, err, os) == [op |-> "ReadFile", path |-> path, n |-> n, err |-> err, os |-> os]
      verr == ValidatePath(fscfg, path)
  IN  /\ fscall.op = "idle"
      /\ UNCHANGED fscfg
      /\ IF verr # "nil"
         THEN /\ auditLog("read", FALSE, verr)
              /\ fscall' = R(0, verr, <<>>)
         ELSE \E stat \in OsOutcomes, size \in FileSizes, read \in OsOutcomes :
                IF stat = "fail"
                THEN /\ auditLog("read", FALSE, "stat failed")
                     /\ fscall' = R(0, "failed to stat file", <<"Stat">>)
                ELSE IF fscfg.maxFileSize > 0 /\ size > fscfg.maxFileSize
                THEN /\ auditLog("read", FALSE, "file too big")
                     /\ fscall' = R(size, "ErrFileTooBig", <<"Stat">>)
                ELSE IF read = "fail"
                THEN /\ auditLog("read", FALSE, "read failed")
                     /\ fscall' = R(size, "failed to read file", <<"Stat", "ReadFile">>)
                ELSE /\ auditLog("read", TRUE, "read bytes")
                     /\ fscall' = R(size, "nil", <<"Stat", "ReadFile">>)

\* As WriteFile, but data of exactly the cap is refused too.
WriteFile_RejectsAtCap(path, n) ==
  LET R(err, os) == [op |-> "WriteFile", path |-> path, n |-> n, err |-> err, os |-> os]
      verr == ValidatePath(fscfg, path)
  IN  /\ fscall.op = "idle"
      /\ UNCHANGED fscfg
      /\ IF verr # "nil"
         THEN /\ auditLog("write", FALSE, verr)
              /\ fscall' = R(verr, <<>>)
         ELSE IF fscfg.maxFileSize > 0 /\ n >= fscfg.maxFileSize
         THEN /\ auditLog("write", FALSE, "data too big")
              /\ fscall' = R("ErrFileTooBig", <<>>)
         ELSE \E mkdir \in OsOutcomes, write \in OsOutcomes :
                IF mkdir = "fail"
                THEN /\ auditLog("write", FALSE, "mkdir failed")
                     /\ fscall' = R("failed to create directory", <<"MkdirAll">>)
                ELSE IF write = "fail"
                THEN /\ auditLog("write", FALSE, "write failed")
                     /\ fscall' = R("failed to write file", <<"MkdirAll", "WriteFile">>)
                ELSE /\ auditLog("write", TRUE, "wrote bytes")
                     /\ fscall' = R("nil", <<"MkdirAll", "WriteFile">>)

\* SafeFS.WriteFile with n bytes of data.
WriteFile(path, n) ==
  LET R(err, os) == [op |-> "WriteFile", path |-> path, n |-> n, err |-> err, os |-> os]
      verr == ValidatePath(fscfg, path)
  IN  /\ fscall.op = "idle"
      /\ UNCHANGED fscfg
      /\ IF verr # "nil"
         THEN /\ auditLog("write", FALSE, verr)
              /\ fscall' = R(verr, <<>>)
         ELSE IF fscfg.maxFileSize > 0 /\ n > fscfg.maxFileSize
         THEN /\ auditLog("write", FALSE, "data too big")
              /\ fscall' = R("ErrFileTooBig", <<>>)
         ELSE \E mkdir \in OsOutcomes, write \in OsOutcomes :
                IF mkdir = "fail"
                THEN /\ auditLog("write", FALSE, "mkdir failed")
                     /\ fscall' = R("failed to create directory", <<"MkdirAll">>)
                ELSE IF write = "fail"
                THEN /\ auditLog("write", FALSE, "write failed")
                     /\ fscall' = R("failed to write file", <<"MkdirAll", "WriteFile">>)
                ELSE /\ auditLog("write", TRUE, "wrote bytes")
                     /\ fscall' = R("nil", <<"MkdirAll", "WriteFile">>)

\* As ListDir, but a failed ReadDir returns without a record.
ListDir_SilentReadDirFailure(path) ==
  LET R(err, os) == [op |-> "ListDir", path |-> path, n |-> 0, err |-> err, os |-> os]
      verr == validatePathForDirectory(fscfg, path)
  IN  /\ fscall.op = "idle"
      /\ UNCHANGED fscfg
      /\ IF verr # "nil"
         THEN /\ auditLog("list", FALSE, verr)
              /\ fscall' = R(verr, <<>>)
         ELSE \E readdir \in OsOutcomes :
                IF readdir = "fail"
                THEN /\ UNCHANGED audit
                     /\ fscall' = R("failed to read directory", <<"ReadDir">>)
                ELSE /\ auditLog("list", TRUE, "listed entries")
                     /\ fscall' = R("nil", <<"ReadDir">>)

\* SafeFS.ListDir.
ListDir(path) ==
  LET R(err, os) == [op |-> "ListDir", path |-> path, n |-> 0, err |-> err, os |-> os]
      verr == validatePathForDirectory(fscfg, path)
  IN  /\ fscall.op = "idle"
      /\ UNCHANGED fscfg
      /\ IF verr # "nil"
         THEN /\ auditLog("list", FALSE, verr)
              /\ fscall' = R(verr, <<>>)
         ELSE \E readdir \in OsOutcomes :
                IF readdir = "fail"
                THEN /\ auditLog("list", FALSE, "readdir failed")
                     /\ fscall' = R("failed to read directory", <<"ReadDir">>)
                ELSE /\ auditLog("list", TRUE, "listed entries")
                     /\ fscall' = R("nil", <<"ReadDir">>)

\* SafeFS.CopyFile. path is the source; the error is wrapped on the two
\* validation paths.
CopyFile(srcPath, dstPath) ==
  LET R(n, err, os) == [op |-> "CopyFile", path |-> srcPath, n |-> n, err |-> err, os |-> os]
      serr == ValidatePath(fscfg, srcPath)
      derr == ValidatePath(fscfg, dstPath)
  IN  /\ fscall.op = "idle"
      /\ UNCHANGED fscfg
      /\ IF serr # "nil"
         THEN /\ auditLog("copy", FALSE, "src validation failed")
              /\ fscall' = R(0, "source path validation failed", <<>>)
         ELSE IF derr # "nil"
         THEN /\ auditLog("copy", FALSE, "dst validation failed")
              /\ fscall' = R(0, "destination path validation failed", <<>>)
         ELSE \E open \in OsOutcomes, stat \in OsOutcomes, size \in FileSizes,
                 mkdir \in OsOutcomes, create \in OsOutcomes, copy \in OsOutcomes :
                IF open = "fail"
                THEN /\ auditLog("copy", FALSE, "open src failed")
                     /\ fscall' = R(0, "failed to open source file", <<"Open">>)
                ELSE IF stat = "fail"
                THEN /\ auditLog("copy", FALSE, "stat src failed")
                     /\ fscall' = R(0, "failed to stat source file", <<"Open", "Stat">>)
                ELSE IF fscfg.maxFileSize > 0 /\ size > fscfg.maxFileSize
                THEN /\ auditLog("copy", FALSE, "src file too big")
                     /\ fscall' = R(size, "ErrFileTooBig", <<"Open", "Stat">>)
                ELSE IF mkdir = "fail"
                THEN /\ auditLog("copy", FALSE, "mkdir dst failed")
                     /\ fscall' = R(size, "failed to create destination directory",
                                    <<"Open", "Stat", "MkdirAll">>)
                ELSE IF create = "fail"
                THEN /\ auditLog("copy", FALSE, "create dst failed")
                     /\ fscall' = R(size, "failed to create destination file",
                                    <<"Open", "Stat", "MkdirAll", "Create">>)
                ELSE IF copy = "fail"
                THEN /\ auditLog("copy", FALSE, "copy failed")
                     /\ fscall' = R(size, "failed to copy file contents",
                                    <<"Open", "Stat", "MkdirAll", "Create", "Copy">>)
                ELSE /\ auditLog("copy", TRUE, "copied bytes")
                     /\ fscall' = R(size, "nil",
                                    <<"Open", "Stat", "MkdirAll", "Create", "Copy">>)

\* The caller takes the result; the records of the call have been consumed
\* by the sink.
FsReturn ==
  /\ fscall.op # "idle"
  /\ fscall' = NoFsCall
  /\ audit' = <<>>
  /\ UNCHANGED fscfg

otherVars == <<policy, grouping, db, now, resp, mcpVars, jcall, tr, gen, frame>>

FsInit ==
  /\ \E config \in FsConfigs : NewSafeFS(config)
  /\ policy = DefaultPermissions
  /\ grouping = {}
  /\ db = [p |-> policy, g |-> grouping, fresh |-> TRUE]
  /\ jcall = NoJwtCall
  /\ frame = NoFrame
  /\ tr = NoTransport
  /\ gen = NoGenerator
  /\ now = 0
  /\ resp = Idle
  /\ NoSession
  /\ NewMCPManager

\* A SafeFS serves one call at a time here: calls do not share state.
FsNext ==
  \/ /\ fscall.op = "idle"
     /\ \E path \in PathInputs, forDirectory \in BOOLEAN :
          Validate(path, forDirectory) /\ UNCHANGED otherVars
  \/ /\ fscall.op = "idle"
     /\ \E path \in PathInputs : ReadFile(path) /\ UNCHANGED otherVars
  \/ /\ fscall.op = "idle"
     /\ \E path \in PathInputs, n \in FileSizes : WriteFile(path, n) /\ UNCHANGED otherVars
  \/ /\ fscall.op = "idle"
     /\ \E path \in PathInputs : ListDir(path) /\ UNCHANGED otherVars
  \/ /\ fscall.op = "idle"
     /\ \E srcPath \in CopyInputs, dstPath \in CopyInputs :
          CopyFile(srcPath, dstPath) /\ UNCHANGED otherVars
  \/ FsReturn /\ UNCHANGED otherVars

SpecFs == FsInit /\ [][FsNext]_vars

(***************************************************************************)
(* Claims on the HTTP gate                                                  *)
(***************************************************************************)

ProtectedRouteNames == { r.name : r \in ProtectedRoutes }

\* The token a request carries, wherever it carries it.
PresentedToken(req) ==
  IF req.headerToken.kind # "absent" THEN req.headerToken ELSE req.queryToken

\* No token, a malformed one, one whose signature does not verify under the
\* server key, or one with expires-at <= t.
UnacceptableToken(tok, t) ==
  \/ tok.kind = "absent"
  \/ tok.kind = "garbage"
  \/ tok.kind = "jwt" /\ (tok.sig # "server" \/ tok.exp <= t)

GuardedEffects == { "policy_check", "file_op", "gadget_spawn", "peer_call", "store_write" }

\* C1: a request to a protected route (any route under /api except POST
\* /api/auth/login) that carries no token, a malformed token, a token with a
\* bad signature or one with expires-at <= now is answered 401 and aborted;
\* nothing after the JWT middleware runs, so no policy check, file
\* operation, gadget spawn or peer call happens for it.
C1_BadTokenIs401AndAborted ==
  ( /\ resp.route \in ProtectedRouteNames
    /\ UnacceptableToken(PresentedToken(resp.req), now) )
  => /\ resp.status = 401
     /\ resp.aborted
     /\ resp.ran = <<"cors", "requestid", "jwt">>
     /\ resp.effects \cap GuardedEffects = {}

\* C1 witness: a server-signed token presented at the very instant it
\* expires, on the file-read route, has been refused.
C1_Witness ==
  /\ resp.route = "GET /api/fs/read"
  /\ PresentedToken(resp.req).kind = "jwt"
  /\ PresentedToken(resp.req).sig = "server"
  /\ PresentedToken(resp.req).exp = now
  /\ resp.status = 401

\* The permission gate of the exchange just completed: the chain has a
\* RequirePermission handler and the request got as far as that handler.
PermGate == CHOOSE h \in Elems(resp.chain) : h.kind = "perm"
ReachedPermGate ==
  /\ resp.route # "idle"
  /\ \E h \in Elems(resp.chain) : h.kind = "perm"
  /\ "perm" \in Elems(resp.ran)

\* enforce(identity.subject, o, a) or enforce("role:"+r, o, a) for a role r
\* carried in the token.
SubjectOrRoleAllowed(claims, o, a) ==
  \/ Enforce(claims.sub, o, a)
  \/ \E r \in Elems(claims.roles) : Enforce(RoleKey(r), o, a)

\* C2: RequirePermission(object, action) lets the request through to its
\* handler iff enforce(identity.subject, object, action) holds or
\* enforce("role:"+r, object, action) holds for some role r carried in the
\* token; otherwise the response is 403 with the required object and
\* action, the request is aborted and the handler does not run.
C2_RequirePermissionIff ==
  ReachedPermGate =>
    LET allowed == SubjectOrRoleAllowed(resp.claims, PermGate.object, PermGate.action)
        handlerRan == resp.chain[Len(resp.chain)].object \in Elems(resp.ran)
    IN  /\ handlerRan <=> allowed
        /\ ~allowed =>
             /\ resp.status = 403
             /\ resp.body.required = <<PermGate.object, PermGate.action>>
             /\ resp.aborted

\* C2 witness: a request was let through on a role of its token alone (the
\* subject itself has no rule), and its handler ran.
C2_Witness ==
  /\ ReachedPermGate
  /\ ~Enforce(resp.claims.sub, PermGate.object, PermGate.action)
  /\ \E r \in Elems(resp.claims.roles) :
       Enforce(RoleKey(r), PermGate.object, PermGate.action)
  /\ "file_op" \in resp.effects

\* A request was refused by the permission gate.
C2_DeniedReached ==
  /\ ReachedPermGate
  /\ resp.status = 403

\* A request was let through on a rule of its subject alone.
C2_DirectReached ==
  /\ ReachedPermGate
  /\ Enforce(resp.claims.sub, PermGate.object, PermGate.action)
  /\ ~ \E r \in Elems(resp.claims.roles) :
         Enforce(RoleKey(r), PermGate.object, PermGate.action)

\* One session followed from Connect to its end, with the goroutines of the
\* client scheduled fairly: the receive loop, Connect and its initialize
\* call, and the stdio monitor all keep running; what the peer, the owner
\* and the clock do is up to them.
SessionNext ==
  \/ sr_begin("conn") /\ UNCHANGED serverVars
  \/ sr_register("conn") /\ UNCHANGED serverVars
  \/ sr_send("conn") /\ UNCHANGED serverVars
  \/ sr_recv("conn") /\ UNCHANGED serverVars
  \/ sr_timeout("conn") /\ UNCHANGED serverVars
  \/ sr_defer("conn") /\ UNCHANGED serverVars
  \/ ConnectBegin /\ UNCHANGED serverVars
  \/ ConnectEnd /\ UNCHANGED serverVars
  \/ OwnerClosesTransport /\ UNCHANGED serverVars
  \/ CloseBegin /\ UNCHANGED serverVars
  \/ CloseTransport /\ UNCHANGED serverVars
  \/ CloseFinish /\ UNCHANGED serverVars
  \/ LoopTop /\ UNCHANGED serverVars
  \/ LoopReceive /\ UNCHANGED serverVars
  \/ LoopLookup /\ UNCHANGED serverVars
  \/ LoopDeliver /\ UNCHANGED serverVars
  \/ LoopNotify /\ UNCHANGED serverVars
  \/ sr_begin("loop") /\ UNCHANGED serverVars
  \/ sr_register("loop") /\ UNCHANGED serverVars
  \/ sr_send("loop") /\ UNCHANGED serverVars
  \/ sr_recv("loop") /\ UNCHANGED serverVars
  \/ sr_ctx("loop") /\ UNCHANGED serverVars
  \/ sr_timeout("loop") /\ UNCHANGED serverVars
  \/ sr_defer("loop") /\ UNCHANGED serverVars
  \/ LoopRefetchDone /\ UNCHANGED serverVars
  \/ \E n \in outgoing : PeerRespond(n) /\ UNCHANGED serverVars
  \/ PeerNotify /\ UNCHANGED serverVars
  \/ TransportDies /\ UNCHANGED serverVars
  \/ StdioMonitor /\ UNCHANGED serverVars

SessionFairness ==
  /\ WF_vars(LoopTop /\ UNCHANGED serverVars)
  /\ WF_vars(LoopReceive /\ UNCHANGED serverVars)
  /\ WF_vars(LoopLookup /\ UNCHANGED serverVars)
  /\ WF_vars(LoopDeliver /\ UNCHANGED serverVars)
  /\ WF_vars(LoopNotify /\ UNCHANGED serverVars)
  /\ WF_vars(StdioMonitor /\ UNCHANGED serverVars)
  /\ WF_vars(sr_begin("conn") /\ UNCHANGED serverVars)
  /\ WF_vars(sr_register("conn") /\ UNCHANGED serverVars)
  /\ WF_vars(sr_send("conn") /\ UNCHANGED serverVars)
  /\ WF_vars(sr_recv("conn") /\ UNCHANGED serverVars)
  /\ WF_vars(sr_timeout("conn") /\ UNCHANGED serverVars)
  /\ WF_vars(sr_defer("conn") /\ UNCHANGED serverVars)
  /\ WF_vars(sr_begin("loop") /\ UNCHANGED serverVars)
  /\ WF_vars(sr_register("loop") /\ UNCHANGED serverVars)
  /\ WF_vars(sr_send("loop") /\ UNCHANGED serverVars)
  /\ WF_vars(sr_recv("loop") /\ UNCHANGED serverVars)
  /\ WF_vars(sr_ctx("loop") /\ UNCHANGED serverVars)
  /\ WF_vars(sr_timeout("loop") /\ UNCHANGED serverVars)
  /\ WF_vars(sr_defer("loop") /\ UNCHANGED serverVars)
  /\ WF_vars(LoopRefetchDone /\ UNCHANGED serverVars)
  /\ WF_vars(ConnectEnd /\ UNCHANGED serverVars)
  /\ WF_vars(CloseTransport /\ UNCHANGED serverVars)
  /\ WF_vars(CloseFinish /\ UNCHANGED serverVars)

SpecSession == ClientInit /\ [][SessionNext]_vars /\ SessionFairness

\* The handlers that take a gadget name from the URL, and what the claims
\* say of a name.
NamedGadgetRoutes == { "POST /api/gadgets/:name/execute", "GET /api/gadgets/:name/info" }
NameHandlerRan ==
  /\ resp.route \in NamedGadgetRoutes
  /\ \E i \in 1..Len(resp.ran) : resp.ran[i] \in {"ExecuteGadget", "GetGadgetInfo"}
NameMatches(name) ==
  /\ Len(name) \in 1..50
  /\ \A i \in 1..Len(name) :
       Contains("abcdefghijklmnopqrstuvwxyzABCDEFGHIJKLMNOPQRSTUVWXYZ0123456789_-",
                SubSeq(name, i, i))

\* C17: ExecuteGadget and GetGadgetInfo accept a gadget name if and only if
\* it is 1 to 50 characters long and every character is in [A-Za-z0-9_-];
\* for every other name they answer with a validation failure (400) and no
\* process is spawned.
C17_GadgetNameValidated ==
  NameHandlerRan =>
    IF NameMatches(resp.req.gadget)
    THEN resp.body.error # "Invalid gadget name"
    ELSE /\ resp.status = 400
         /\ resp.body.error = "Invalid gadget name"
         /\ "gadget_spawn" \notin resp.effects

\* A name of exactly 50 characters was accepted and its gadget run.
C17_Witness ==
  /\ resp.route = "POST /api/gadgets/:name/execute"
  /\ Len(resp.req.gadget) = 50
  /\ resp.status = 200
  /\ "gadget_spawn" \in resp.effects

\* An execute request for a system-classified gadget by an authenticated
\* caller: neither the user nor any role in the token has (system, manage).
SystemExecuteWithoutManage ==
  /\ \/ /\ resp.route = "POST /api/gadgets/:name/execute"
        /\ \E sg \in SystemGadgets : FoldString(resp.req.gadget) = sg
     \/ resp.route = "POST /api/gadgets/sysinfo/execute"
  /\ resp.claims.kind = "jwt"
  /\ ~Enforce(resp.claims.username, "system", "manage")
  /\ ~SubjectOrRoleAllowed(resp.claims, "system", "manage")

Granted(role) == <<resp.claims.username, "role:" \o role>> \in grouping

\* C20: RequireAnyRole(roles) lets a request through if and only if the
\* policy store grants the token's user at least one of the listed roles,
\* and RequireAllRoles(roles) if and only if the store grants every listed
\* role; membership is read from the store at request time, and a denied
\* request gets 403 without running the handler.
C20_RoleGatesReadTheStore ==
  (resp.route = "gate" /\ resp.claims.kind = "jwt") =>
    LET through == IF resp.kind = "anyrole"
                   THEN \E i \in 1..Len(resp.roles) : Granted(resp.roles[i])
                   ELSE \A i \in 1..Len(resp.roles) : Granted(resp.roles[i])
    IN  IF through
        THEN /\ ~resp.aborted
             /\ "RbacRead" \in Elems(resp.ran)
             /\ resp.status = 200
        ELSE /\ resp.status = 403
             /\ resp.aborted
             /\ "RbacRead" \notin Elems(resp.ran)

\* A user whose token lists admin, and whom the store grants user only, was
\* stopped by the all-of gate for user and admin.
C20_Witness ==
  /\ resp.route = "gate"
  /\ resp.kind = "allroles"
  /\ resp.roles = <<"user", "admin">>
  /\ resp.claims.kind = "jwt"
  /\ resp.claims.roles = <<"admin">>
  /\ Granted("user")
  /\ ~Granted("admin")
  /\ resp.status = 403

(***************************************************************************)
(* Claims on the MCP client                                                 *)
(***************************************************************************)

\* The caller has an entry in the pending-request table.
HasPending(x) == \E e \in pendingRequests : e[1] = call[x].id /\ e[2] = x

\* C4: every sendRequest call returns exactly once, with the response whose
\* id matches its request, the timeout error or the context-cancellation
\* error (or the error of a send that failed), and when it has returned the
\* pending-request table holds no entry for its id.
C4_SendRequestReturnsOnce ==
  \A x \in Callers :
    /\ call[x].pc # "panicked"
    /\ call[x].pc = "returned" /\ call[x].res.kind # "not_ready" =>
         /\ call[x].res.kind \in
              {"response", "timeout", "cancelled", "send_failed", "not_connected"}
         /\ call[x].res.kind = "response" => call[x].res.id = call[x].id
         /\ ~HasPending(x)

\* C5: when Close has run while sendRequest calls were waiting, each of
\* them ends with a non-nil error (never a nil response with a nil error,
\* and it does return), no waiter is left without a wake-up, the table
\* holds nothing but calls that registered after Close and are on their
\* way out, and connected and initialized are false.
C5_CloseWakesWaitersWithError ==
  (closer = "done" /\ ctxDone) =>
    /\ \A x \in Callers :
         /\ call[x].res.kind # "nil"
         /\ call[x].pc # "panicked"
         /\ call[x].pc = "wait" => respChan[x].closed \/ Len(respChan[x].buf) > 0
    /\ \A e \in pendingRequests : call[e[2]].pc \in {"send", "defer"}
    /\ ~connected
    /\ ~initialized

\* C6: with requests in flight and their responses arriving in any order,
\* a caller never receives a response carrying another request's id, and a
\* response the loop handles while the caller of the request with that id
\* is waiting is handed to that caller.
C6_ResponseReachesItsWaiter ==
  /\ \A x \in Callers :
       call[x].res.kind = "response" => call[x].res.id[2] = call[x].id[2]
  /\ loop.pc = "deliver" =>
       \A x \in Callers :
         (call[x].pc = "wait" /\ call[x].id[2] = loop.msg.id[2]) => loop.target = x

\* The response to the loop's own re-fetch request has arrived and waits in
\* the transport.
RefetchResponseArrived ==
  \E i \in 1..Len(incoming) :
    incoming[i].type = "response" /\ incoming[i].id = call["loop"].id[2]

\* C7: a list_changed notification handled with a change handler registered
\* does not stop the receive loop: the loop is never parked in the re-fetch
\* call's select while the response to that re-fetch sits unread in the
\* transport, where only the timeout (or Close) can release it.
C7_LoopNotParkedOnItsOwnRequest ==
  ~( /\ loop.pc = "refetch"
     /\ call["loop"].pc = "wait"
     /\ RefetchResponseArrived )

\* The transport under the session is dead: closed, or its peer is gone.
TransportDead == ~tconnected \/ peerGone

\* A goroutine of the process has panicked: the process is gone, and its
\* receive loop with it.
ProcessCrashed ==
  loop.pc = "panicked" \/ \E x \in Callers : call[x].pc = "panicked"

\* C8: once the transport of a connected session has died, the session's
\* receive loop eventually exits (a loop that died with the process counts
\* as ended) and IsConnected becomes false.
C8_DeadTransportEndsLoop ==
  (connected /\ TransportDead) ~>
     ((loop.pc = "exited" \/ ProcessCrashed) /\ ~IsConnected)

\* The session has received an initialize response carrying the client's
\* protocol version.
InitializeAccepted ==
  call["conn"].pc \in {"done", "failed"} /\ call["conn"].res.kind = "response"

\* C11: a request other than initialize is written to the transport only
\* after the session has received an initialize response with the client's
\* protocol version, and a public call (from an API caller or from the
\* loop's notification handler) that finds the session not ready returns an
\* error without taking an id or writing a frame.
C11_NoRequestBeforeReady ==
  [][ /\ \A x \in Callers \ {"conn"} :
           (call[x].pc = "send" /\ outgoing' # outgoing) => InitializeAccepted
      /\ \A x \in ApiCallers :
           (call[x].pc = "idle" /\ call'[x].pc # "idle" /\ ~IsReady) =>
              /\ call'[x].pc = "returned"
              /\ call'[x].res.kind = "not_ready"
              /\ outgoing' = outgoing /\ idGen' = idGen
      /\ (loop.pc = "handleNotification" /\ loop'.pc # loop.pc /\ ~IsReady) =>
              /\ loop'.pc = "top"
              /\ outgoing' = outgoing /\ idGen' = idGen /\ call' = call
    ]_vars

\* A caller was refused before the handshake, and after it the loop's
\* re-fetch request is on the wire.
C11_Witness ==
  /\ InitializeAccepted
  /\ \E x \in ApiCallers : call[x].res.kind = "not_ready"
  /\ call["loop"].pc = "wait" /\ call["loop"].id[2] \in outgoing

(***************************************************************************)
(* Claims on the MCP manager                                                *)
(***************************************************************************)

\* The objects that existed before the step are as they were.
OldObjsUntouched == SubSeq(objs', 1, Len(objs)) = objs

\* C9: whenever ConnectServer returns an error, the session map is as it was
\* before the call (no session has been installed for the name), and a
\* transport that was created for the attempt is not connected when the
\* call returns: it never was, or it has been closed.
C9_FailedConnectLeavesMap ==
  [][ (last'.op = "ConnectServer" /\ last'.err # "nil") =>
        /\ clients' = clients
        /\ OldObjsUntouched
        /\ \A g \in (Len(objs) + 1)..Len(objs') : objs'[g].tstate # "connected"
    ]_vars

\* A ConnectServer call has just failed in initialize, after its transport
\* had been connected, while the map holds another session.
C9_Witness ==
  /\ last.op = "ConnectServer"
  /\ last.err = "init_failed"
  /\ objs[Len(objs)].tstate = "closed"
  /\ \E n \in ServerNames : clients[n] # NoClient

\* C10: on a health tick every session of the map is examined; for a session
\* that is not connected and whose descriptor has auto_start the manager
\* calls ConnectServer for its name, and when that call succeeds the map
\* holds a ready session for the name; a session that is still connected,
\* or whose descriptor lacks auto_start, is left as it is, and so is every
\* other session.
C10_HealthTickReconnects ==
  [][ /\ last'.op = "HealthTick" =>
           hc'.todo = { n \in ServerNames : clients[n] # NoClient }
      /\ (hc.pc = "scan" /\ hc'.pc = "idle") => hc'.todo = {}
      /\ last'.by = "health" =>
           /\ last'.name \in hc.todo
           /\ IF /\ ~SessionIsConnected(objs, hc.snap[last'.name])
                 /\ ServerConfigs[last'.name].AutoStart
                THEN /\ last'.op = "ConnectServer"
                     /\ last'.err = "nil" =>
                          /\ clients'[last'.name] # NoClient
                          /\ SessionIsReady(objs', clients'[last'.name])
                ELSE /\ last'.op = "HealthSkip"
                     /\ clients' = clients
                     /\ objs' = objs
           /\ \A m \in ServerNames \ {last'.name} : clients'[m] = clients[m]
           /\ OldObjsUntouched
    ]_vars

\* The health monitor has just reconnected a dead auto_start session while
\* the map also holds a dead session without auto_start.
C10_Witness ==
  /\ last.by = "health"
  /\ last.op = "ConnectServer"
  /\ last.err = "nil"
  /\ SessionIsReady(objs, clients[last.name])
  /\ \E m \in ServerNames \ {last.name} :
       /\ clients[m] # NoClient
       /\ ~SessionIsConnected(objs, clients[m])
       /\ ~ServerConfigs[m].AutoStart

(***************************************************************************)
(* Claims on the sandboxed file system                                      *)
(***************************************************************************)

ValidateCalled == fscall.op \in {"ValidatePath", "validatePathForDirectory"}
FileOps == {"ReadFile", "WriteFile", "ListDir", "CopyFile"}

\* The normalized absolute form of the path of the call, and whether it is
\* root or a descendant of root, element by element.
Normalized == Abs(fscall.path)
IsUnder(p, root) ==
  /\ Len(root.segs) <= Len(p.segs)
  /\ SubSeq(p.segs, 1, Len(root.segs)) = root.segs

UnderSomeBase == \E i \in 1..Len(fscfg.basePaths) : IsUnder(Normalized, fscfg.basePaths[i])
UnderSomeDenied == \E i \in 1..Len(fscfg.deniedPaths) : IsUnder(Normalized, fscfg.deniedPaths[i])

\* C13: ValidatePath and validatePathForDirectory never accept a path whose
\* normalized absolute form is neither a base root nor a descendant of one:
\* it is rejected, with the outside-base error unless it was rejected as
\* traversal before; and no file operation on such a path reaches the
\* operating system.
C13_OutsideBaseNeverAccepted ==
  /\ (ValidateCalled /\ ~UnderSomeBase) =>
        \/ fscall.err = "ErrPathOutsideBase"
        \/ /\ fscall.err = "ErrPathTraversal"
           /\ Contains(PathString(Clean(fscall.path)), "..")
  /\ (fscall.op \in FileOps /\ ~UnderSomeBase) =>
        (fscall.err # "nil" /\ fscall.os = <<>>)

\* A sibling of the base root whose name begins with the base root's name
\* has been rejected as outside the base.
C13_Witness ==
  /\ fscall.op = "ValidatePath"
  /\ fscfg.basePaths = << [abs |-> TRUE, segs |-> <<"base", "secret">>] >>
  /\ Normalized = [abs |-> TRUE, segs |-> <<"base", "secret2", "b.txt">>]
  /\ fscall.err = "ErrPathOutsideBase"

\* C14: for a path that passes the traversal and base-root checks,
\* validation returns the denied error if and only if the normalized path is
\* a deny-list entry or a descendant of one by path elements; a sibling
\* whose name merely starts with the name of a denied directory is not
\* rejected as denied.
C14_DeniedIffUnderDenyEntry ==
  (ValidateCalled /\ fscall.err \notin {"ErrPathTraversal", "ErrPathOutsideBase"})
    => ((fscall.err = "ErrPathDenied") <=> UnderSomeDenied)

\* C15: for a path that passes validation and data of n bytes, WriteFile
\* with a size cap > 0 returns the too-large error when n > cap, and then
\* has created no directory and written no file; n = cap is not rejected
\* and n = cap + 1 is; with cap = 0 no length is rejected.
C15_WriteFileSizeCap ==
  (fscall.op = "WriteFile" /\ ValidatePath(fscfg, fscall.path) = "nil") =>
    /\ (fscfg.maxFileSize > 0 /\ fscall.n > fscfg.maxFileSize)
          => (fscall.err = "ErrFileTooBig" /\ fscall.os = <<>>)
    /\ (fscfg.maxFileSize > 0 /\ fscall.n <= fscfg.maxFileSize)
          => fscall.err # "ErrFileTooBig"
    /\ fscfg.maxFileSize = 0 => fscall.err # "ErrFileTooBig"

\* A write of exactly cap bytes went through to the file.
C15_Witness ==
  /\ fscall.op = "WriteFile"
  /\ fscfg.maxFileSize > 0
  /\ fscall.n = fscfg.maxFileSize
  /\ fscall.err = "nil"
  /\ fscall.os = <<"MkdirAll", "WriteFile">>

\* C16: with an audit sink configured, every call of ReadFile, WriteFile,
\* ListDir or CopyFile has emitted exactly one audit record when it
\* returns, on every return path, and the record's success flag is true if
\* and only if the call returns no error.
C16_OneAuditRecordPerCall ==
  (fscfg.auditLogger /\ fscall.op \in FileOps) =>
    /\ Len(audit) = 1
    /\ audit[1].success <=> (fscall.err = "nil")
    /\ audit[1].operation =
         [ReadFile |-> "read", WriteFile |-> "write", ListDir |-> "list",
          CopyFile |-> "copy"][fscall.op]

\* A ListDir whose ReadDir failed has left one record of the failure.
C16_Witness ==
  /\ fscfg.auditLogger
  /\ fscall.op = "ListDir"
  /\ fscall.os = <<"ReadDir">>
  /\ fscall.err # "nil"
  /\ audit = << [operation |-> "list", success |-> FALSE, details |-> "readdir failed"] >>

(***************************************************************************)
(* Claims on the policy store                                               *)
(***************************************************************************)

\* The user ids that do not carry the reserved prefix.
PlainUsers == { u \in UserInputs : ~(Len(u) >= 5 /\ SubSeq(u, 1, 5) = "role:") }
AllObjects == { r[2] : r \in DefaultPermissions \cup RuleInputs }
AllActions == { r[3] : r \in DefaultPermissions \cup RuleInputs }
AllRoleNames == { StripRolePrefix(r[1]) : r \in DefaultPermissions } \cup RoleInputs

\* C3: after any sequence of add_rule, remove_rule, grant and revoke,
\* Enforce(user, object, action) is true iff the rule (user, object, action)
\* exists or some role R is granted to the user and (role:R, object, action)
\* exists.
C3_EnforceIffRuleOrGrantedRole ==
  \A u \in PlainUsers, o \in AllObjects, a \in AllActions :
    Enforce(u, o, a) <=>
      \/ <<u, o, a>> \in policy
      \/ \E R \in AllRoleNames :
           /\ <<u, RoleKey(R)>> \in grouping
           /\ <<RoleKey(R), o, a>> \in policy

\* C19: grant(user, role) is rejected, and the set of grants is left
\* unchanged, whenever the user id begins with the reserved prefix "role:";
\* hence the store never holds a grant from a role key to a role, through
\* which the holders of one role would inherit the permissions of another.
C19_ReservedPrefixRejected ==
  \A g \in grouping : ~HasPrefix(g[1], "role:")

\* C21: after any sequence of successful add_rule, remove_rule, grant and
\* revoke operations, closing the store and opening a new manager on the
\* same database yields a store that holds exactly the rules and grants it
\* held before the restart.
C21_RestartKeepsRulesAndGrants ==
  [][Restart => (policy' = policy /\ grouping' = grouping)]_vars

\* C22: default seeding inserts rules at most once per store: once a store
\* has been seeded (as every store is by its first start), no restart after
\* any sequence of rule and grant changes inserts any rule.
C22_SeedingAtMostOnce ==
  [][Restart => (db'.p \subseteq db.p)]_vars

\* C23, as the specification states it: for every user u, role R and store
\* state, AssignRole(u, R) followed by RemoveRole(u, R) leaves
\* GetUserRoles(u) equal to its value before the two calls.
C23_GrantRevokeKeepsRoles ==
  [][\A u \in UserInputs, R \in RoleInputs :
       GrantRevoke(u, R) => (GetUserRoles(u)' = GetUserRoles(u))]_vars

\* C23, amended: for every user u, role R and store state in which u does
\* not hold R, AssignRole(u, R) followed by RemoveRole(u, R) leaves
\* GetUserRoles(u) equal to its value before the two calls; if u holds R
\* already, AssignRole fails and the two calls leave u without R and with
\* its other roles.
C23_GrantRevokeKeepsOtherRoles ==
  [][\A u \in UserInputs, R \in RoleInputs :
       GrantRevoke(u, R) => (GetUserRoles(u)' = GetUserRoles(u) \ {R})]_vars

\* A store that has been written to, in which one user holds a role and
\* another holds none: the states a grant and revocation of a role the user
\* does not hold start from and end in.
C23_Witness ==
  /\ GetUserRoles("alice") = {"user"}
  /\ GetUserRoles("bob") = {}
  /\ ~db.fresh
  /\ db.g = grouping

\* The (object, action) pairs Enforce allows a subject.
AllowedPairs(subject) ==
  { oa \in AllObjects \X AllActions : Enforce(subject, oa[1], oa[2]) }
ReadonlyPairs == { <<"filesystem", "read">> }
UserPairs == { <<"filesystem", "read">>, <<"ai", "access">>, <<"gadgets", "execute">> }
AiUserPairs == UserPairs \cup { <<"filesystem", "write">> }

\* C24: on first start with an empty store, role:readonly is allowed
\* exactly (filesystem, read); role:user exactly (filesystem, read),
\* (ai, access), (gadgets, execute); role:ai_user exactly those and
\* (filesystem, write); role:admin every one of those pairs and
\* (users, manage), (roles, manage), (system, manage), (system, config),
\* (ai, models), (gadgets, manage).
C24_DefaultRolePermissions ==
  db.fresh =>
    /\ AllowedPairs("role:readonly") = ReadonlyPairs
    /\ AllowedPairs("role:user") = UserPairs
    /\ AllowedPairs("role:ai_user") = AiUserPairs
    /\ AiUserPairs \cup
         { <<"users", "manage">>, <<"roles", "manage">>, <<"system", "manage">>,
           <<"system", "config">>, <<"ai", "models">>, <<"gadgets", "manage">> }
           \subseteq AllowedPairs("role:admin")

\* The store right after first start, seeded.
C24_Witness ==
  /\ db.fresh
  /\ Cardinality(db.p) = 19
  /\ <<"role:ai_user", "gadgets", "execute">> \in policy

\* The token in hand is the one the manager of the call minted at the time
\* of the call.
RoundTrip == jcall.op = "ValidateToken" /\ jcall.tok = GenerateTokenBy(jcall.j, jcall.userID, jcall.username, jcall.roles, jcall.t)
\* What the claims of a successful round trip hold.
RoundTripClaims ==
  /\ jcall.res.ok
  /\ jcall.res.claims.user_id = jcall.userID
  /\ jcall.res.claims.sub = jcall.userID
  /\ jcall.res.claims.username = jcall.username
  /\ jcall.res.claims.roles = jcall.roles
  /\ jcall.res.claims.iss = jcall.j.issuer
  /\ jcall.res.claims.nbf = jcall.res.claims.iat
  /\ jcall.res.claims.exp = jcall.res.claims.iat + jcall.j.tokenExpiry

\* C25, as the specification states it: for every subject, display name
\* and role list, and a manager with a positive TTL,
\* ValidateToken(GenerateToken(subject, name, roles)) succeeds and returns
\* the same subject, display name and roles in the same order, with the
\* configured issuer, not-before = issued-at and
\* expires-at = issued-at + TTL.
C25_RoundTripAnyTTL ==
  (RoundTrip /\ jcall.j.tokenExpiry > 0) => RoundTripClaims

\* C25, amended: the same for a manager whose TTL is a positive whole
\* number of seconds.
C25_RoundTripWholeSeconds ==
  (RoundTrip /\ jcall.j.tokenExpiry > 0 /\ jcall.j.tokenExpiry % Second = 0)
    => RoundTripClaims

\* A token minted with a two-role list by a manager with a TTL of one
\* second has been validated by that manager half a second past the second
\* of its minting.
C25_Witness ==
  /\ RoundTrip
  /\ jcall.j.tokenExpiry = Second
  /\ jcall.t % Second = 1
  /\ jcall.roles = <<"admin", "user">>
  /\ jcall.res.ok

\* C26: ValidateToken rejects every token whose issuer differs from the
\* manager's configured issuer, even when the token's signature is valid
\* under the shared secret and the token is not expired.
C26_WrongIssuerRejected ==
  (/\ jcall.op = "ValidateToken"
   /\ jcall.tok.kind = "jwt"
   /\ jcall.tok.iss # jcall.j.issuer)
    => ~jcall.res.ok

\* The token in hand fails validation by manager j at time t for one of the
\* reasons C27 names: it is malformed, its signature is bad, or it is
\* expired.
Malformed(tok) == tok.kind # "jwt"
BadSignature(j, tok) == tok.kind = "jwt" /\ (tok.alg \notin SigningMethodHMAC \/ tok.sig # j.secretKey)
Expired(tok, t) == tok.kind = "jwt" /\ t >= tok.exp

C27_WitnessRefused ==
  /\ jcall.op = "RefreshToken"
  /\ BadSignature(jcall.j, jcall.tok)
  /\ ~jcall.res.ok

\* The Send calls that are inside the write of a frame.
Writing == { g \in Senders : tr.pc[g] = "write" }

\* C28: on each transport (stdio, socket, in-process), at most one Send
\* call is writing a frame at any time: two concurrent Send calls on the
\* same transport never overlap inside the write.
C28_OneWriterAtATime == Cardinality(Writing) <= 1

\* The effects of Close on the child so far, by name.
Effects == [ i \in 1..Len(tr.log) |-> tr.log[i].ev ]
IsPrefix(a, b) == Len(a) <= Len(b) /\ a = SubSeq(b, 1, Len(a))
CloseReturned == tr.kind = "stdio" /\ tr.pc["closer"] \in { "unlock", "returned" }

\* The stages of Close that do not depend on what the child has done:
\* stdin first, no terminate signal before the end of the 5 s wait, no kill
\* before the end of a further 2 s wait, a kill for the child that ignores
\* EOF and the terminate signal, and IsConnected false once Close returns.
CloseStages ==
  /\ IsPrefix(Effects, <<"stdin.Close", "SIGTERM", "Kill">>)
  /\ \A i \in 1..Len(tr.log) :
       /\ tr.log[i].ev = "SIGTERM" => tr.log[i].at >= StdinGrace
       /\ tr.log[i].ev = "Kill" => tr.log[i].at >= tr.log[i - 1].at + TermGrace
  /\ (CloseReturned /\ tr.behaviour = "stubborn" /\ Sent("stdin.Close")) => Sent("Kill")
  /\ CloseReturned => ~tr.connected

\* C29, as the specification states it: StdioTransport.Close proceeds in
\* fixed stages: it closes the child's stdin first, sends the terminate
\* signal only if the child has not exited by the end of the 5 s wait, and
\* kills only if the child has still not exited after a further 2 s wait; a
\* child that ignores both EOF and the terminate signal is killed, and
\* IsConnected is false when Close returns on every path.
C29_CloseStagesByExit ==
  /\ CloseStages
  /\ \A i \in 1..Len(tr.log) :
       tr.log[i].ev \in { "SIGTERM", "Kill" } => ~tr.log[i].exited

\* C29, amended: StdioTransport.Close proceeds in fixed stages: it closes
\* the child's stdin first, sends the terminate signal only if it has not
\* taken the child's exit from its waiter goroutine by the end of the 5 s
\* wait, and kills only if it has still not taken it after a further 2 s
\* wait (the child may have exited by then); a child that ignores both EOF
\* and the terminate signal is killed, and IsConnected is false when Close
\* returns on every path.
C29_CloseStagesByReceipt ==
  /\ CloseStages
  /\ (tr.kind = "stdio" /\ Sent("SIGTERM")) => tr.pc["closer"] # "select5"
  /\ (tr.kind = "stdio" /\ tr.pc["closer"] \in { "idle", "select5" }) => ~Sent("SIGTERM")
  /\ (tr.kind = "stdio" /\ tr.pc["closer"] \in { "idle", "select5", "select2" }) => ~Sent("Kill")

\* Close has returned after killing a child that ignored EOF and the
\* terminate signal, 7 s after closing its stdin.
C29_Witness ==
  /\ CloseReturned
  /\ tr.behaviour = "stubborn"
  /\ Effects = <<"stdin.Close", "SIGTERM", "Kill">>
  /\ tr.log[3].at = StdinGrace + TermGrace
  /\ ~tr.connected

\* C30: MessageIDGenerator.Next returns 1 on its first call and, across any
\* interleaving of concurrent callers, each call returns exactly one more
\* than the value returned by the previous call, so no two requests of one
\* session ever share an id.
C30_IdsCountUpFromOne ==
  \A i \in 1..Len(gen.issued) : gen.issued[i] = i

\* The callers have made MaxIds calls between them, and the last has
\* returned.
C30_Witness ==
  /\ Len(gen.issued) = MaxIds
  /\ gen.issued[MaxIds] = MaxIds

\* The three shapes of a frame, as C31 names them.
RequestShape(msg) == msg.ID # "nil" /\ msg.Method # ""
ResponseShape(msg) ==
  /\ msg.ID # "nil"
  /\ msg.Method = ""
  /\ (msg.Result # "nil") # (msg.Error # "nil")
NotificationShape(msg) == msg.Method # "" /\ msg.ID = "nil"

\* C31: ValidateMessage accepts a frame if and only if its jsonrpc field is
\* "2.0" and the frame has exactly one of the three shapes: request (id and
\* method), response (id, no method, and exactly one of result and error)
\* or notification (method and no id); every other frame is rejected with
\* the invalid-request error.
C31_ValidateMessageEnforcesShape ==
  frame.op = "validated" =>
    IF /\ frame.msg.JSONRPC = "2.0"
       /\ Cardinality({ shape \in { "request", "response", "notification" } :
            \/ shape = "request" /\ RequestShape(frame.msg)
            \/ shape = "response" /\ ResponseShape(frame.msg)
            \/ shape = "notification" /\ NotificationShape(frame.msg) }) = 1
    THEN frame.err.nil
    ELSE ~frame.err.nil /\ frame.err.code = InvalidRequest

\* C32: for every HTTP response the server produces, whatever the method,
\* route or status (including preflight, not-found, 401 and 403 responses),
\* the X-Request-ID response header equals the inbound X-Request-ID header
\* when one was sent and is a freshly generated non-empty value otherwise.
C32_EveryResponseHasRequestID ==
  resp.route # "idle" =>
    IF resp.req.rid # "" THEN resp.rid = resp.req.rid
    ELSE resp.rid = "uuid"

\* C33: a POST /api/gadgets/sysinfo/execute request from a caller who holds
\* the admin role runs the gadget binary with arguments run sysinfo
\* followed by the request's args, and is answered 200 when the gadget
\* exits with status 0; the same request from a caller without the admin
\* role is answered 403.
C33_AdminRunsSysinfo ==
  (resp.route = "POST /api/gadgets/sysinfo/execute" /\ resp.claims.kind = "jwt") =>
    IF Granted("admin")
    THEN /\ "gadget_spawn" \in resp.effects
         /\ resp.req.ok => resp.status = 200
    ELSE resp.status = 403

\* C34: MCPManager.Stop always returns, for any number of sessions in the
\* manager map: it stops the health monitor, and when it returns every
\* session has been closed and the session map is empty.  Stop never comes
\* to wait for the mutex it holds itself, and the step in which it returns
\* leaves the health monitor stopped, the map empty and every session it
\* found open closed.
C34_StopReturns ==
  /\ [](mstop.pc # "relock")
  /\ [][StopReturn =>
          /\ mstop'.healthStop = "closed"
          /\ \A n \in ServerNames : clients'[n] = NoClient
          /\ \A n \in ServerNames :
               clients[n] # NoClient => ~objs'[clients[n]].connected]_vars

\* A goroutine closed a pending-request channel that was closed already.
ClosedTwice == \E x \in Callers : call[x].pc = "panicked"
\* The receive loop sent a response on a channel that was closed already.
SentAfterClose == loop.pc = "panicked"

\* C35: in every interleaving of sendRequest (including its timeout,
\* cancellation and send-failure exits), handleResponse and Close, each
\* pending-request channel is closed at most once and no response is ever
\* sent on a channel after it has been closed.
C35_ChannelsClosedOnce == ~ClosedTwice /\ ~SentAfterClose

\* The entry of the pending-request table whose key is numerically equal to
\* the id of the response the loop is handling.
Outstanding(n) == { e \in pendingRequests : e[1][2] = n }

\* C36: a response frame read from a stdio or socket transport whose
\* decoded id is numerically equal to the id of an outstanding request is
\* found in the pending-request table and handed to that request's waiter.
C36_DecodedIdIsFound ==
  (tkind # "memory" /\ loop.pc = "deliver") =>
    \A e \in Outstanding(loop.msg.id[2]) : loop.target = e[2]

\* The peer's answer to Connect's initialize request is in the transport's
\* receive queue.
InitializeResponseArrived ==
  \E i \in 1..Len(incoming) :
    incoming[i].type = "response" /\ incoming[i].id = call["conn"].id[2]

\* The receive loop is inside handleNotification, at the c.mutex.RLock() of
\* the IsReady call that opens ListResources, while Connect holds c.mutex.
LoopBlockedOnConnect == loop.pc = "handleNotification" /\ cmutex = "conn"

\* C37: when the peer sends a valid initialize response, Connect succeeds and
\* the session becomes ready, even when a list_changed notification precedes
\* that response and a change handler is registered: Connect never waits for
\* an initialize response that has arrived while the only goroutine that can
\* deliver it is blocked on the mutex Connect holds until it returns.
C37_ConnectNotStarvedByNotification ==
  ~( /\ call["conn"].pc = "wait"
     /\ InitializeResponseArrived
     /\ LoopBlockedOnConnect )

\* The client objects the manager's map holds as sessions.
Sessions == { clients[n] : n \in ServerNames } \ {NoClient}

\* C38: every receive loop started by MCPClient.Connect exits once its
\* client is no longer the manager's session for its name (after a failed
\* Connect, after a health-check reconnect replaced the session, after
\* DisconnectServer): a client that is not a session has no loop running on
\* a context nobody cancelled.
C38_NoLoopOutlivesItsSession ==
  \A g \in 1..Len(objs) : objs[g].loop = "running" => g \in Sessions

\* The grants createDefaultAdmin left in the store at server start.
StartupGrants == { <<"admin", RoleKey("admin")>> }

\* RemoveRole(u, R) has succeeded and the grant has not been made again: a
\* grant of the start-up store that the store no longer holds (only
\* RemoveRole deletes a grant).
Revoked(u, role) ==
  /\ <<u, RoleKey(role)>> \in StartupGrants
  /\ <<u, RoleKey(role)>> \notin grouping

\* C39: after RemoveRole(u, R) succeeded, a permission-gated request by u is
\* let through only when the policy store grants u the permission at the
\* time of the request; a token minted before the revocation that still
\* lists R does not carry R's permissions.
C39_RevokedRoleGivesNothing ==
  ( /\ ReachedPermGate
    /\ resp.claims.kind = "jwt"
    /\ \E r \in Elems(resp.claims.roles) : Revoked(resp.claims.username, r)
    /\ resp.chain[Len(resp.chain)].object \in Elems(resp.ran) )
  => Enforce(resp.claims.username, PermGate.object, PermGate.action)

\* A permission-gated request by a caller whose token lists a role the
\* store has revoked got through to its handler.
RevokedCallerServed ==
  /\ ReachedPermGate
  /\ resp.claims.kind = "jwt"
  /\ \E r \in Elems(resp.claims.roles) : Revoked(resp.claims.username, r)
  /\ resp.chain[Len(resp.chain)].object \in Elems(resp.ran)

\* C39 as the gate decides it: after RemoveRole(u, R) succeeded, a
\* permission-gated request by u is let through only when, at the time of
\* the request, the store has a rule for u (directly or through a role it
\* still grants u) or a rule for a role listed in u's token; a token minted
\* before the revocation keeps the permissions the store gives role R.
C39_RevokedRoleCountsWhileInToken ==
  RevokedCallerServed =>
    \/ Enforce(resp.claims.username, PermGate.object, PermGate.action)
    \/ \E r \in Elems(resp.claims.roles) :
         Enforce(RoleKey(r), PermGate.object, PermGate.action)

\* C39 witness: the admin grant was removed, and a request with the token
\* minted before is served on the rules of role admin alone.
C39_Witness ==
  /\ RevokedCallerServed
  /\ ~Enforce(resp.claims.username, PermGate.object, PermGate.action)
  /\ Enforce(RoleKey("admin"), PermGate.object, PermGate.action)

\* The routes behind RequireAnyRole("user", "admin") that the claim names.
UserOrAdminRoutes ==
  { "GET /api/gadgets", "GET /api/gadgets/:name/info", "GET /api/rbac/me" }

\* Nothing has changed the policy store since the server started.
StoreAsStarted == policy = DefaultPermissions /\ grouping = StartupGrants

\* C40: after server start on an empty policy store, every account that can
\* log in (admin, user, readonly) holds in the store the role its token
\* carries, so a caller logged in as user passes the user-or-admin gate on
\* GET /api/gadgets, GET /api/gadgets/:name/info and GET /api/rbac/me.
C40_LoginAccountsHoldTheirRole ==
  StoreAsStarted =>
    /\ ( resp.route = "POST /api/auth/login" /\ resp.status = 200 ) =>
         \A r \in Elems(resp.body.token.roles) :
           <<resp.body.token.username, RoleKey(r)>> \in grouping
    /\ ( /\ resp.route \in UserOrAdminRoutes
         /\ resp.claims.kind = "jwt"
         /\ resp.claims.username = "user" ) =>
         /\ resp.status # 403
         /\ resp.chain[Len(resp.chain)].object \in Elems(resp.ran)

====
